----------------------- MODULE EpochContinuityProofs ------------------------
(***************************************************************************)
(* The two derived stores and the promoted authority follow the durable    *)
(* chain across epochs, whatever the tree of blocks, the length of an      *)
(* epoch, the number of rollbacks and the points at which the process      *)
(* stops.                                                                  *)
(***************************************************************************)
EXTENDS EpochContinuity, ChainProofs

-----------------------------------------------------------------------------
(* The inductive invariant.                                                  *)

Before(S, e) == {b \in S : EpochOf(Slot[b]) < e}

\* No block is two epochs above its parent, and the first is in the seed's.
Steps(S) ==
    \A b \in S : IF Parent[b] = Anchor THEN EpochOf(Slot[b]) = 0
                 ELSE EpochOf(Slot[b]) <= EpochOf(Slot[Parent[b]]) + 1

Frozen == [epoch : Nat, source : Blocks, mark : SUBSET Blocks]
Points == [folded : SUBSET Blocks, lead : SUBSET Frozen]
Stores == [folded : SUBSET Blocks, lead : SUBSET Frozen, certified : BOOLEAN,
           staged : SUBSET Points, settled : SUBSET Points]
Views == [epoch : Nat, source : Blocks \cup {Anchor}, mark : SUBSET Blocks,
          nonce : SUBSET Blocks]
Records == [kind : {"Activated"}, epoch : Nat, view : Views]
             \cup [kind : {"RollBack"}, epoch : Nat]

Passing == {"reconcile", "fold", "catchup", "position", "caughtup"}

TypeOK ==
    /\ store \in Stores
    /\ cp \in SUBSET Blocks
    /\ wal \in Seq(Records)
    /\ authority \in Views
    /\ warm \in BOOLEAN /\ spliced \in BOOLEAN
    /\ pc \in Passing \cup {"sync", "pump", "trim", "recertify", "coadvance",
                            "recover", "halted"}

\* The durable chain.
ChainOk == Linked(db) /\ Steps(db)

\* A fold of a chain that, below its own last epoch, is the durable one: a
\* rollback never leaves the epoch of the tip.
Shares(F, S) ==
    /\ Linked(F)
    /\ EpochAt(F) <= EpochAt(S)
    /\ Before(F, EpochAt(F)) = Before(S, EpochAt(F))

\* The leadership frozen along F: one object for each epoch up to the next.
LeadOf(F, lead) ==
    /\ {l.epoch : l \in lead} = 2..EpochAt(F) + 1
    /\ \A l \in lead : /\ l.mark = Before(F, l.epoch - 1)
                       /\ l.source = Tip(Before(F, l.epoch - 1))

OnChain(F, S) == F # {} /\ Tip(F) \in S

\* The rewind points of the accumulator.
Rewinds(s) == s.staged \cup s.settled

StoreOk(s, S) ==
    /\ Shares(s.folded, S)
    /\ \A q \in Rewinds(s) : Shares(q.folded, S) /\ q.folded # {}
    /\ \A p, q \in s.staged : p = q
    /\ \A p, q \in s.settled : p = q
    /\ s.certified => /\ OnChain(s.folded, S)
                      /\ \A q \in Rewinds(s) : OnChain(q.folded, S)
    /\ ~s.certified => /\ s.staged = {}
                       /\ s.settled = {} => s.folded = {}
                       /\ \A q \in s.settled : q = Baseline(s)

LeadOk(s) ==
    /\ LeadOf(s.folded, s.lead)
    /\ \A q \in Rewinds(s) : LeadOf(q.folded, q.lead)

\* The reduced checkpoint.
CheckpointOk ==
    /\ db = {} => cp = {}
    /\ ~spliced => Linked(cp)
    /\ (~spliced /\ pc \in Passing) => cp = Upto(db, LastSlot(cp))

\* The view that the chain S gives epoch e.
ExactView(S, e) ==
    [epoch  |-> e,
     source |-> IF e = 1 THEN Anchor ELSE Tip(Before(S, e - 1)),
     mark   |-> IF e = 1 THEN {} ELSE Before(S, e - 1),
     nonce  |-> Before(S, e)]

\* The records of the log that stand: one for the epoch of the tip, none more
\* than one epoch above it, each with the view the chain gives.
RecordsOk ==
    /\ \A i \in ActiveRecords : 1 <= wal[i].epoch /\ wal[i].epoch <= EpochAt(db) + 1
    /\ EpochAt(db) > 0 => \E i \in ActiveRecords : wal[i].epoch = EpochAt(db)
    /\ ~spliced => \A i \in ActiveRecords : wal[i].view = ExactView(db, wal[i].epoch)

\* The authority of the tip's epoch is in force, and no record is above it.
InForce ==
    /\ authority.epoch = EpochAt(db)
    /\ authority.nonce = Before(db, EpochAt(db))
    /\ \A i \in ActiveRecords : wal[i].epoch <= EpochAt(db)

\* Where the process is.
PcOk ==
    /\ pc \in {"sync", "trim", "recertify"} => InForce
    /\ pc \in Passing \cup {"coadvance"} => warm \/ InForce
    /\ pc \in Passing \cup {"coadvance", "recover"} => ~warm \/ authority = SeedView
    /\ pc = "recover" => warm
    /\ pc = "pump" => /\ arg \in Blocks /\ Parent[arg] = TipPoint(db) /\ db # {}
                      /\ EpochOf(Slot[arg]) = EpochAt(db) + 1
                      /\ authority.epoch = EpochAt(db) + 1
                      /\ authority.nonce = Before(db, EpochAt(db) + 1)
                      /\ \E i \in ActiveRecords : wal[i].epoch = EpochAt(db) + 1
    /\ pc = "trim" => arg \in db /\ EpochOf(Slot[arg]) = EpochAt(db)
    /\ pc \in {"trim", "recertify"} => ~store.certified
    /\ pc \in {"reconcile", "fold", "catchup", "position"} => db # {}
    /\ pc \in {"fold", "catchup", "position"} => store.certified \/ store.folded = {}
    /\ pc \in {"catchup", "position"} => arg \in NextStored(db, store.folded)
    /\ pc = "position" => EpochAt(store.folded) < EpochOf(Slot[arg])
    /\ (pc \in {"caughtup", "recover"} /\ ~spliced /\ db # {})
          => store.certified /\ store.folded = db

\* What a restart may refuse, and where the walk may stop.
NoMismatch ==
    ~spliced => fault \notin {"EpochViewPostPromotionMismatch", "AccumulatorWalkHalted"}

FaultOk == RecoveryAdmitted /\ NoMismatch

IInv ==
    /\ TypeOK /\ ChainOk /\ StoreOk(store, db)
    /\ ~spliced => LeadOk(store) /\ memo = {}
    /\ CheckpointOk /\ RecordsOk /\ PcOk /\ FaultOk

-----------------------------------------------------------------------------
(* Epochs.                                                                   *)

\* A later slot is not an earlier one, and the seed's epoch is not above itself.
LEMMA SlotOrder ==
    /\ \A m, n \in Nat : m < n => m <= n
    /\ 0 <= 0 + 1 /\ ~(0 > 0)
  OBVIOUS

\* The next epoch is not the seed's, and not two on.
LEMMA NextEpoch ==
    ASSUME NEW d \in Nat, NEW e, e = d + 1
    PROVE  1 <= e /\ e <= d + 1
  OBVIOUS

\* A fold that froze the leadership of the next epoch is in this one.
LEMMA LastFrozen ==
    ASSUME NEW a \in Nat, NEW d \in Nat, a <= d, NEW e, e = d + 1, e \in 2..a + 1
    PROVE  a = e - 1
  OBVIOUS

\* Epochs are numbered in the order of slots, from the seed's.
LEMMA EpochMonotone ==
    /\ \A n \in Nat : EpochOf(n) \in Nat
    /\ \A m, n \in Nat : m <= n => EpochOf(m) <= EpochOf(n)
    /\ EpochOf(AnchorSlot) = 0
<1>1. ASSUME NEW n \in Nat PROVE EpochOf(n) \in Nat
  BY Z3, EpochAssumption DEF EpochOf
<1>2. ASSUME NEW m \in Nat, NEW n \in Nat, m <= n PROVE EpochOf(m) <= EpochOf(n)
  BY <1>2, Z3, EpochAssumption DEF EpochOf
<1>3. EpochOf(AnchorSlot) = 0
  BY Z3, EpochAssumption, AnchorAssumption DEF EpochOf
<1> QED
  BY <1>1, <1>2, <1>3

\* The epoch a set of blocks ends in is the last that it has a block of.
LEMMA EpochBounds ==
    ASSUME NEW S, S \subseteq Blocks
    PROVE  /\ EpochAt(S) \in Nat
           /\ \A b \in S : /\ EpochOf(Slot[b]) \in Nat
                           /\ EpochOf(Slot[b]) <= EpochAt(S)
           /\ S = {} => EpochAt(S) = 0
           /\ S # {} => EpochAt(S) = EpochOf(Slot[Tip(S)])
<1>1. /\ LastSlot(S) \in Nat
      /\ \A b \in S : Slot[b] \in Nat /\ Slot[b] <= LastSlot(S)
  BY LastSlotBounds, SlotIsNat
<1>2. EpochAt(S) \in Nat
  BY <1>1, EpochMonotone DEF EpochAt
<1>3. \A b \in S : EpochOf(Slot[b]) \in Nat /\ EpochOf(Slot[b]) <= EpochAt(S)
  BY <1>1, EpochMonotone DEF EpochAt
<1>4. S = {} => EpochAt(S) = 0
  BY EpochMonotone DEF EpochAt, LastSlot
<1>5. S # {} => EpochAt(S) = EpochOf(Slot[Tip(S)])
  BY DEF EpochAt, LastSlot
<1> QED
  BY <1>2, <1>3, <1>4, <1>5

\* A stored chain without a skipped boundary has a block of every epoch.
LEMMA NoEpochMissing ==
    ASSUME NEW S, Linked(S), Steps(S), S # {}
    PROVE  \A e \in 0..EpochAt(S) : \E b \in S : EpochOf(Slot[b]) = e
<1>0. S \subseteq Blocks /\ \A b \in S : Slot[b] \in Nat
  BY SlotIsNat DEF Linked
<1>1. SUFFICES ASSUME NEW e \in 0..EpochAt(S), \A b \in S : EpochOf(Slot[b]) # e
               PROVE  FALSE
  OBVIOUS
<1> DEFINE later == {b \in S : EpochOf(Slot[b]) > e}
           slots == {Slot[b] : b \in later}
<1>2. Tip(S) \in later
  <2>1. Tip(S) \in S /\ EpochAt(S) = EpochOf(Slot[Tip(S)]) /\ EpochAt(S) \in Nat
    BY <1>0, TipIsMax, EpochBounds
  <2> QED
    BY <1>1, <2>1
<1>3. slots \subseteq Nat /\ slots # {}
  BY <1>0, <1>2
<1>4. PICK b \in later : \A c \in later : Slot[b] <= Slot[c]
  <2>1. PICK n \in slots : \A m \in slots : n <= m
    BY <1>3, LeastNatural, Zenon
  <2> QED
    BY <2>1
<1>5. EpochOf(Slot[b]) \in Nat /\ EpochOf(Slot[b]) > e /\ b \in S
  BY <1>0, EpochMonotone
<1>6. CASE Parent[b] = Anchor
  BY <1>5, <1>6 DEF Steps
<1>7. CASE Parent[b] # Anchor
  <2>1. /\ Parent[b] \in S /\ Slot[Parent[b]] < Slot[b]
        /\ EpochOf(Slot[b]) <= EpochOf(Slot[Parent[b]]) + 1
    BY <1>5, <1>7, LinkedParent DEF Steps
  <2>2. EpochOf(Slot[Parent[b]]) \in Nat /\ Slot[Parent[b]] \in Nat /\ Slot[b] \in Nat
    BY <1>0, <1>5, <2>1, EpochMonotone
  <2>3. Parent[b] \in later
    BY <1>1, <1>5, <2>1, <2>2
  <2> QED
    BY <1>4, <2>1, <2>2, <2>3
<1> QED
  BY <1>6, <1>7

-----------------------------------------------------------------------------
(* Folds along a chain.                                                      *)

\* A fold whose last block is stored is the stored chain up to it: the anchor
\* LastAdvancedPoint vouches for everything below it.
LEMMA OnChainIsPrefix ==
    ASSUME NEW F, Linked(F), NEW S, Linked(S), OnChain(F, S)
    PROVE  F = Upto(S, LastSlot(F)) /\ F \subseteq S
<1>0. F \subseteq Blocks /\ F # {}
  BY DEF Linked, OnChain
<1>1. Tip(F) \in F /\ LastSlot(F) = Slot[Tip(F)] /\ \A c \in F : Slot[c] <= LastSlot(F)
  BY <1>0, LastSlotBounds
<1>2. Upto(F, LastSlot(F)) = F
  BY <1>1 DEF Upto
<1>3. Upto(F, Slot[Tip(F)]) = Upto(S, Slot[Tip(F)])
  BY <1>1, LinkedShared DEF OnChain
<1> QED
  BY <1>1, <1>2, <1>3 DEF Upto

\* The stored chain up to a slot is a fold along it.
LEMMA PrefixShares ==
    ASSUME NEW S, Linked(S), NEW F, F = Upto(S, LastSlot(F))
    PROVE  Shares(F, S) /\ (F # {} => OnChain(F, S))
<1>0. S \subseteq Blocks /\ F \subseteq S /\ F \subseteq Blocks
  BY DEF Linked, Upto
<1>1. LastSlot(F) \in Nat /\ LastSlot(S) \in Nat /\ \A c \in S : Slot[c] <= LastSlot(S)
  BY <1>0, LastSlotBounds
<1>2. Linked(F)
  BY <1>1, LinkedUpto
<1>3. F # {} => Tip(F) \in F /\ LastSlot(F) = Slot[Tip(F)]
  BY <1>0, LastSlotBounds
<1>4. EpochAt(F) <= EpochAt(S)
  <2>1. CASE F = {}
    BY <1>0, <2>1, EpochBounds
  <2>2. CASE F # {}
    BY <1>0, <1>3, <2>2, EpochBounds
  <2> QED
    BY <2>1, <2>2
<1>5. Before(F, EpochAt(F)) = Before(S, EpochAt(F))
  <2>1. ASSUME NEW b \in S, EpochOf(Slot[b]) < EpochAt(F) PROVE b \in F
    <3>1. Slot[b] \in Nat
      BY <1>0, SlotIsNat
    <3>2. ~(LastSlot(F) <= Slot[b])
      BY <1>1, <2>1, <3>1, EpochMonotone DEF EpochAt
    <3> QED
      BY <1>1, <3>1, <3>2 DEF Upto
  <2> QED
    BY <1>0, <2>1 DEF Before
<1> QED
  BY <1>0, <1>2, <1>3, <1>4, <1>5 DEF Shares, OnChain

\* The block after the cursor is the child of the fold's last block, and the
\* only one: folding it in gives the stored chain up to it.
LEMMA NextExtends ==
    ASSUME NEW S, Linked(S), NEW F, F = Upto(S, LastSlot(F)), NEW b \in NextStored(S, F)
    PROVE  /\ b \in S /\ b \in Blocks /\ b \notin F /\ LastSlot(F) < Slot[b]
           /\ NextStored(S, F) = {b}
           /\ Parent[b] = TipPoint(F)
           /\ F \cup {b} = Upto(S, Slot[b])
           /\ LastSlot(F \cup {b}) = Slot[b]
           /\ Tip(F \cup {b}) = b
<1>0. S \subseteq Blocks /\ F \subseteq S /\ \A c \in S : Slot[c] \in Nat
  BY SlotIsNat DEF Linked, Upto
<1>1. LastSlot(F) \in Nat /\ \A c \in F : Slot[c] <= LastSlot(F)
  BY <1>0, LastSlotBounds
<1>2. /\ b \in S /\ LastSlot(F) < Slot[b]
      /\ \A c \in S : LastSlot(F) < Slot[c] => Slot[b] <= Slot[c]
  BY DEF NextStored
<1>3. Below(S, b) = F
  <2>1. ASSUME NEW c \in S, Slot[c] < Slot[b] PROVE c \in F
    <3>1. ~(LastSlot(F) < Slot[c])
      BY <1>0, <1>2, <2>1
    <3> QED
      BY <1>0, <1>1, <3>1 DEF Upto
  <2>2. ASSUME NEW c \in F PROVE Slot[c] < Slot[b]
    BY <1>0, <1>1, <1>2
  <2> QED
    BY <1>0, <2>1, <2>2 DEF Below
<1>4. Parent[b] = TipPoint(F)
  BY <1>2, <1>3 DEF Linked
<1>5. NextStored(S, F) = {b}
  <2>1. ASSUME NEW c \in NextStored(S, F) PROVE c = b
    <3>1. c \in S /\ Slot[c] <= Slot[b] /\ Slot[b] <= Slot[c]
      BY <1>2 DEF NextStored
    <3>2. Slot[c] = Slot[b]
      BY <1>0, <1>2, <3>1
    <3> QED
      BY <1>2, <3>1, <3>2 DEF Linked
  <2> QED
    BY <2>1
<1>6. F \cup {b} = Upto(S, Slot[b])
  <2>1. ASSUME NEW c \in S, Slot[c] <= Slot[b] PROVE c \in F \cup {b}
    <3>1. Slot[c] < Slot[b] \/ Slot[c] = Slot[b]
      BY <1>0, <1>2, <2>1
    <3> QED
      BY <1>2, <1>3, <3>1 DEF Linked, Below
  <2>2. \A c \in F \cup {b} : Slot[c] <= Slot[b]
    BY <1>0, <1>2, <1>3 DEF Below
  <2> QED
    BY <1>0, <1>2, <2>1, <2>2 DEF Upto
<1>7. Linked(F)
  BY <1>1, LinkedUpto
<1>8. b \notin F /\ LastSlot(F \cup {b}) = Slot[b] /\ Tip(F \cup {b}) = b
  BY <1>0, <1>2, <1>4, <1>7, LinkedExtend
<1> QED
  BY <1>0, <1>2, <1>4, <1>5, <1>6, <1>8

\* Without a block after the cursor, the fold is the whole stored chain.
LEMMA NoNextIsAll ==
    ASSUME NEW S, Linked(S), NEW F, F = Upto(S, LastSlot(F)), NextStored(S, F) = {}
    PROVE  F = S
<1>0. S \subseteq Blocks /\ F \subseteq S /\ \A c \in S : Slot[c] \in Nat
  BY SlotIsNat DEF Linked, Upto
<1>1. LastSlot(F) \in Nat
  BY <1>0, LastSlotBounds
<1> DEFINE later == {b \in S : Slot[b] > LastSlot(F)}
           slots == {Slot[b] : b \in later}
<1>2. SUFFICES ASSUME later # {} PROVE FALSE
  <2>1. later = {} => \A b \in S : Slot[b] <= LastSlot(F)
    BY <1>0, <1>1
  <2> QED
    BY <1>0, <1>2, <2>1 DEF Upto
<1>3. slots \subseteq Nat /\ slots # {}
  BY <1>0, <1>2
<1>4. PICK n \in slots : \A m \in slots : n <= m
  BY <1>3, LeastNatural, Zenon
<1>5. PICK b \in later : n = Slot[b]
  OBVIOUS
<1>6. b \in NextStored(S, F)
  BY <1>4, <1>5 DEF NextStored
<1> QED
  BY <1>6

\* Folding in what comes after the cursor keeps a prefix a prefix.
LEMMA PrefixGrows ==
    ASSUME NEW S, Linked(S), NEW F, F = Upto(S, LastSlot(F))
    PROVE  LET G == F \cup NextStored(S, F) IN G = Upto(S, LastSlot(G))
<1>1. CASE NextStored(S, F) = {}
  BY <1>1
<1>2. CASE NextStored(S, F) # {}
  <2>1. PICK b \in NextStored(S, F) : TRUE
    BY <1>2
  <2>2. /\ NextStored(S, F) = {b} /\ F \cup {b} = Upto(S, Slot[b])
        /\ LastSlot(F \cup {b}) = Slot[b]
    BY <2>1, NextExtends, Zenon
  <2> QED
    BY <2>2
<1> QED
  BY <1>1, <1>2

-----------------------------------------------------------------------------
(* Frozen leadership.                                                        *)

\* A block within the epoch leaves the leadership of the fold as it is.
LEMMA LeadWithinEpoch ==
    ASSUME NEW F, F \subseteq Blocks, NEW b \in Blocks, NEW lead, LeadOf(F, lead),
           LastSlot(F \cup {b}) = Slot[b], EpochOf(Slot[b]) = EpochAt(F)
    PROVE  LeadOf(F \cup {b}, lead)
<1>1. EpochAt(F \cup {b}) = EpochAt(F) /\ EpochAt(F) \in Nat
  BY EpochBounds DEF EpochAt
<1>2. ASSUME NEW l \in lead PROVE Before(F \cup {b}, l.epoch - 1) = Before(F, l.epoch - 1)
  <2>1. l.epoch \in 2..EpochAt(F) + 1
    BY DEF LeadOf
  <2>2. ~(EpochOf(Slot[b]) < l.epoch - 1)
    BY <1>1, <2>1
  <2> QED
    BY <2>2 DEF Before
<1> QED
  BY <1>1, <1>2, Zenon DEF LeadOf

\* The first block of an epoch freezes the leadership of the one after, from
\* the fold below it.
LEMMA LeadAcrossBoundary ==
    ASSUME NEW F, F \subseteq Blocks, NEW b \in Blocks, NEW lead, LeadOf(F, lead),
           LastSlot(F \cup {b}) = Slot[b], EpochOf(Slot[b]) = EpochAt(F) + 1,
           NEW frozen, frozen.epoch = EpochOf(Slot[b]) + 1,
           frozen.source = Tip(F), frozen.mark = F
    PROVE  LeadOf(F \cup {b}, {l \in lead : l.epoch # frozen.epoch} \cup {frozen})
<1> DEFINE kept == {l \in lead : l.epoch # frozen.epoch} \cup {frozen}
           e == EpochAt(F)
<1>1. e \in Nat /\ EpochAt(F \cup {b}) = e + 1 /\ \A c \in F : EpochOf(Slot[c]) <= e
  BY EpochBounds DEF EpochAt
<1>2. \A l \in lead : l.epoch \in 2..e + 1
  BY DEF LeadOf
<1>3. kept = lead \cup {frozen} /\ frozen.epoch = e + 2
  BY <1>1, <1>2
<1>4. {l.epoch : l \in kept} = 2..EpochAt(F \cup {b}) + 1
  <2>1. {l.epoch : l \in kept} = {l.epoch : l \in lead} \cup {e + 2}
    BY <1>3
  <2>2. {l.epoch : l \in lead} = 2..e + 1
    BY DEF LeadOf
  <2>3. (2..e + 1) \cup {e + 2} = 2..e + 1 + 1
    BY <1>1
  <2> QED
    BY <1>1, <2>1, <2>2, <2>3
<1>5. ASSUME NEW l \in lead PROVE Before(F \cup {b}, l.epoch - 1) = Before(F, l.epoch - 1)
  <2>1. ~(EpochOf(Slot[b]) < l.epoch - 1)
    BY <1>1, <1>2
  <2> QED
    BY <2>1 DEF Before
<1>6. Before(F \cup {b}, frozen.epoch - 1) = F
  <2>1. EpochOf(Slot[b]) = e + 1 /\ frozen.epoch - 1 = e + 1
    BY <1>1, <1>3
  <2>2. \A c \in F : EpochOf(Slot[c]) \in Nat
    BY EpochBounds
  <2>3. \A c \in F : EpochOf(Slot[c]) < e + 1
    BY <1>1, <2>2
  <2>4. ~(e + 1 < e + 1)
    BY <1>1
  <2> QED
    BY <2>1, <2>3, <2>4 DEF Before
<1>7. \A l \in kept : /\ l.mark = Before(F \cup {b}, l.epoch - 1)
                      /\ l.source = Tip(Before(F \cup {b}, l.epoch - 1))
  BY <1>3, <1>5, <1>6, Zenon DEF LeadOf
<1> QED
  BY <1>4, <1>7, Zenon DEF LeadOf

-----------------------------------------------------------------------------
(* What a change of the durable chain leaves alone.                          *)

\* The chain T has the blocks of S of every epoch before the last of S.
Keeps(S, T) ==
    /\ EpochAt(S) <= EpochAt(T)
    /\ \A e \in Nat : e <= EpochAt(S) => Before(T, e) = Before(S, e)

\* A block admitted on the tip changes no earlier epoch.
LEMMA AdmitKeeps ==
    ASSUME NEW S, Linked(S), NEW b \in Blocks, Parent[b] = TipPoint(S)
    PROVE  /\ Keeps(S, S \cup {b}) /\ EpochAt(S \cup {b}) = EpochOf(Slot[b])
           /\ EpochAt(S) <= EpochOf(Slot[b])
<1>1. S \subseteq Blocks /\ LastSlot(S \cup {b}) = Slot[b] /\ \A c \in S : Slot[c] < Slot[b]
  BY LinkedExtend, Zenon DEF Linked
<1>2. EpochAt(S \cup {b}) = EpochOf(Slot[b])
  BY <1>1 DEF EpochAt
<1>3. EpochAt(S) <= EpochOf(Slot[b])
  <2>1. LastSlot(S) \in Nat /\ Slot[b] \in Nat /\ LastSlot(S) <= Slot[b]
    BY <1>1, SlotIsNat, LastSlotBounds DEF LastSlot
  <2> QED
    BY <2>1, EpochMonotone DEF EpochAt
<1>4. ASSUME NEW e \in Nat, e <= EpochAt(S) PROVE Before(S \cup {b}, e) = Before(S, e)
  <2>1. EpochAt(S) \in Nat /\ EpochOf(Slot[b]) \in Nat
    BY <1>1, EpochBounds, EpochMonotone, SlotIsNat
  <2>2. ~(EpochOf(Slot[b]) < e)
    BY <1>3, <1>4, <2>1
  <2> QED
    BY <2>2 DEF Before
<1> QED
  BY <1>2, <1>3, <1>4 DEF Keeps

\* A rollback to a block of the tip's epoch changes no earlier one.
LEMMA TrimKeeps ==
    ASSUME NEW S, Linked(S), NEW t \in S, EpochOf(Slot[t]) = EpochAt(S)
    PROVE  LET T == Upto(S, Slot[t])
           IN  Keeps(S, T) /\ EpochAt(T) = EpochAt(S) /\ T # {} /\ Linked(T)
<1> DEFINE T == Upto(S, Slot[t])
<1>0. /\ S \subseteq Blocks /\ T \subseteq S /\ t \in T /\ T \subseteq Blocks
      /\ \A c \in S : Slot[c] \in Nat /\ EpochOf(Slot[c]) \in Nat
  BY SlotIsNat, EpochMonotone DEF Linked, Upto
<1>1. Tip(T) = t
  <2>1. Tip(T) \in T /\ Slot[t] <= Slot[Tip(T)]
    BY <1>0, TipIsMax
  <2>2. Slot[Tip(T)] <= Slot[t] /\ Tip(T) \in S
    BY <2>1 DEF Upto
  <2>3. Slot[Tip(T)] = Slot[t]
    BY <1>0, <2>1, <2>2
  <2> QED
    BY <2>2, <2>3 DEF Linked
<1>2. EpochAt(T) = EpochAt(S)
  BY <1>0, <1>1, EpochBounds
<1>3. ASSUME NEW e \in Nat, e <= EpochAt(S) PROVE Before(T, e) = Before(S, e)
  <2>1. ASSUME NEW c \in S, EpochOf(Slot[c]) < e PROVE c \in T
    <3>1. EpochAt(S) \in Nat
      BY <1>0, EpochBounds
    <3>2. ~(Slot[t] <= Slot[c])
      BY <1>0, <1>3, <2>1, <3>1, EpochMonotone
    <3> QED
      BY <1>0, <3>2 DEF Upto
  <2> QED
    BY <1>0, <2>1 DEF Before
<1>4. Linked(T)
  BY <1>0, LinkedUpto
<1>5. EpochAt(S) \in Nat
  BY <1>0, EpochBounds
<1> QED
  BY <1>0, <1>2, <1>3, <1>4, <1>5 DEF Keeps

\* A fold that shares the earlier epochs of a chain goes on sharing them.
LEMMA KeepsShares ==
    ASSUME NEW S, NEW T, Keeps(S, T), S \subseteq Blocks, T \subseteq Blocks,
           NEW F, Shares(F, S)
    PROVE  Shares(F, T)
<1>1. EpochAt(F) \in Nat /\ EpochAt(S) \in Nat /\ EpochAt(T) \in Nat
  BY EpochBounds DEF Shares, Linked
<1> QED
  BY <1>1 DEF Keeps, Shares

\* The view of an epoch up to that of the tip stays.
LEMMA KeepsView ==
    ASSUME NEW S, NEW T, Keeps(S, T), S \subseteq Blocks, NEW e \in Nat,
           1 <= e, e <= EpochAt(S)
    PROVE  ExactView(T, e) = ExactView(S, e)
<1>1. EpochAt(S) \in Nat
  BY EpochBounds
<1>2. Before(T, e) = Before(S, e)
  BY DEF Keeps
<1>3. e - 1 \in Nat /\ e - 1 <= EpochAt(S)
  BY <1>1
<1>4. Before(T, e - 1) = Before(S, e - 1)
  BY <1>3 DEF Keeps
<1> QED
  BY <1>2, <1>4 DEF ExactView

-----------------------------------------------------------------------------
(* The log's activation records.                                             *)

\* A logged promotion stands, and un-crosses nothing.
LEMMA PromotionStands ==
    ASSUME wal \in Seq(Records), NEW r \in Records, r.kind = "Activated",
           wal' = Append(wal, r)
    PROVE  /\ wal' \in Seq(Records)
           /\ ActiveRecords' = ActiveRecords \cup {Len(wal) + 1}
           /\ \A i \in ActiveRecords : wal'[i] = wal[i]
           /\ wal'[Len(wal) + 1] = r
<1>1. /\ wal' \in Seq(Records) /\ Len(wal) \in Nat /\ Len(wal') = Len(wal) + 1
      /\ \A i \in 1..Len(wal) : wal'[i] = wal[i]
      /\ wal'[Len(wal) + 1] = r
  OBVIOUS
<1>2. ASSUME NEW i \in ActiveRecords' PROVE i \in ActiveRecords \cup {Len(wal) + 1}
  <2>1. i \in 1..Len(wal) + 1 /\ wal'[i].kind = "Activated"
    BY <1>1 DEF ActiveRecords
  <2>2. CASE i \in 1..Len(wal)
    <3>1. wal[i] = wal'[i]
      BY <1>1, <2>2
    <3>2. ASSUME NEW j \in i+1..Len(wal), wal[j].kind = "RollBack"
          PROVE  wal[j].epoch >= wal[i].epoch
      <4>1. j \in i+1..Len(wal') /\ wal'[j] = wal[j]
        BY <1>1, <2>2
      <4> QED
        BY <3>1, <3>2, <4>1 DEF ActiveRecords
    <3> QED
      BY <2>1, <2>2, <3>1, <3>2 DEF ActiveRecords
  <2> QED
    BY <1>1, <2>1, <2>2
<1>3. ASSUME NEW i \in ActiveRecords PROVE i \in ActiveRecords'
  <2>1. /\ i \in 1..Len(wal) /\ wal[i].kind = "Activated" /\ wal'[i] = wal[i]
        /\ i \in 1..Len(wal')
    BY <1>1 DEF ActiveRecords
  <2>2. ASSUME NEW j \in i+1..Len(wal'), wal'[j].kind = "RollBack"
        PROVE  wal'[j].epoch >= wal'[i].epoch
    <3>1. CASE j \in 1..Len(wal)
      BY <1>1, <2>1, <2>2, <3>1 DEF ActiveRecords
    <3>2. CASE j = Len(wal) + 1
      BY <1>1, <2>2, <3>2
    <3> QED
      BY <1>1, <2>1, <3>1, <3>2
  <2> QED
    BY <2>1, <2>2 DEF ActiveRecords
<1>4. Len(wal) + 1 \in ActiveRecords'
  BY <1>1 DEF ActiveRecords
<1>5. \A i \in ActiveRecords : wal'[i] = wal[i]
  BY <1>1 DEF ActiveRecords
<1> QED
  BY <1>1, <1>2, <1>3, <1>4, <1>5, Zenon

\* A logged rollback un-crosses the boundaries above the epoch it returns to.
LEMMA RollBackUncrosses ==
    ASSUME wal \in Seq(Records), NEW r \in Records, r.kind = "RollBack",
           wal' = Append(wal, r)
    PROVE  /\ wal' \in Seq(Records)
           /\ ActiveRecords' \subseteq ActiveRecords
           /\ \A i \in ActiveRecords : wal[i].epoch <= r.epoch => i \in ActiveRecords'
           /\ \A i \in ActiveRecords : wal'[i] = wal[i]
<1>1. /\ wal' \in Seq(Records) /\ Len(wal) \in Nat /\ Len(wal') = Len(wal) + 1
      /\ \A i \in 1..Len(wal) : wal'[i] = wal[i] /\ wal[i] \in Records
      /\ wal'[Len(wal) + 1] = r
  OBVIOUS
<1>2. ASSUME NEW i \in ActiveRecords' PROVE i \in ActiveRecords
  <2>1. i \in 1..Len(wal) + 1 /\ wal'[i].kind = "Activated"
    BY <1>1 DEF ActiveRecords
  <2>2. i \in 1..Len(wal)
    BY <1>1, <2>1
  <2>3. wal[i] = wal'[i]
    BY <1>1, <2>2
  <2>4. ASSUME NEW j \in i+1..Len(wal), wal[j].kind = "RollBack"
        PROVE  wal[j].epoch >= wal[i].epoch
    <3>1. j \in i+1..Len(wal') /\ wal'[j] = wal[j]
      BY <1>1, <2>2
    <3> QED
      BY <2>3, <2>4, <3>1 DEF ActiveRecords
  <2> QED
    BY <2>1, <2>2, <2>3, <2>4 DEF ActiveRecords
<1>3. ASSUME NEW i \in ActiveRecords, wal[i].epoch <= r.epoch PROVE i \in ActiveRecords'
  <2>1. /\ i \in 1..Len(wal) /\ wal[i].kind = "Activated" /\ wal'[i] = wal[i]
        /\ i \in 1..Len(wal') /\ wal[i] \in Records
    BY <1>1 DEF ActiveRecords
  <2>2. r.epoch \in Nat /\ wal[i].epoch \in Nat
    BY <2>1 DEF Records
  <2>3. ASSUME NEW j \in i+1..Len(wal'), wal'[j].kind = "RollBack"
        PROVE  wal'[j].epoch >= wal'[i].epoch
    <3>1. CASE j \in 1..Len(wal)
      BY <1>1, <2>1, <2>3, <3>1 DEF ActiveRecords
    <3>2. CASE j = Len(wal) + 1
      BY <1>1, <1>3, <2>1, <2>2, <3>2
    <3> QED
      BY <1>1, <2>1, <3>1, <3>2
  <2> QED
    BY <2>1, <2>3 DEF ActiveRecords
<1>4. \A i \in ActiveRecords : wal'[i] = wal[i]
  BY <1>1 DEF ActiveRecords
<1> QED
  BY <1>1, <1>2, <1>3, <1>4, Zenon

\* What a standing record is.
LEMMA StandingRecord ==
    ASSUME wal \in Seq(Records), NEW i \in ActiveRecords
    PROVE  /\ wal[i] \in Records /\ wal[i].epoch \in Nat /\ i \in Nat
           /\ wal[i].kind = "Activated" /\ wal[i].view \in Views
<1>1. i \in 1..Len(wal) /\ wal[i].kind = "Activated"
  BY DEF ActiveRecords
<1>2. wal[i] \in Records
  BY <1>1
<1>3. wal[i] \in [kind : {"Activated"}, epoch : Nat, view : Views]
  BY <1>1, <1>2 DEF Records
<1> QED
  BY <1>1, <1>2, <1>3

-----------------------------------------------------------------------------
(* The transactions of the accumulator store.                                *)

\* A rewind restores the settled point and drops the staged one.
LEMMA ResetToSettledFields ==
    ASSUME NEW s \in Stores, NEW p \in s.settled, \A q \in s.settled : q = p
    PROVE  /\ ResetToSettled(s) \in Stores
           /\ ResetToSettled(s).folded = p.folded /\ ResetToSettled(s).lead = p.lead
           /\ ResetToSettled(s).certified = FALSE
           /\ ResetToSettled(s).staged = {} /\ ResetToSettled(s).settled = s.settled
<1>1. (CHOOSE q \in s.settled : TRUE) = p
  OBVIOUS
<1>2. p \in Points
  BY DEF Stores
<1>3. ResetToSettled(s) = [s EXCEPT !.folded = p.folded, !.lead = p.lead,
                                   !.certified = FALSE, !.staged = {}]
  BY <1>1, Zenon DEF ResetToSettled
<1> QED
  BY <1>2, <1>3, Zenon DEF Stores, Points

\* An advance folds one block in and certifies the cursor.
LEMMA AdvanceFields ==
    ASSUME NEW s \in Stores, NEW b \in Blocks
    PROVE  /\ AdvanceStore(s, b) \in Stores
           /\ AdvanceStore(s, b).folded = s.folded \cup {b}
           /\ AdvanceStore(s, b).lead = s.lead /\ AdvanceStore(s, b).certified = TRUE
           /\ AdvanceStore(s, b).staged = s.staged /\ AdvanceStore(s, b).settled = s.settled
  BY Zenon DEF AdvanceStore, Stores

\* The leadership frozen so far stays that of the fold when a block of its epoch is
\* folded in.
LEMMA LeadAdvances ==
    ASSUME NEW s, s.folded \subseteq Blocks, NEW b \in Blocks, LeadOk(s),
           LastSlot(s.folded \cup {b}) = Slot[b], EpochOf(Slot[b]) = EpochAt(s.folded),
           NEW t, t.folded = s.folded \cup {b}, t.lead = s.lead,
           t.staged = s.staged, t.settled = s.settled
    PROVE  LeadOk(t)
<1>1. LeadOf(s.folded, s.lead) /\ \A q \in Rewinds(s) : LeadOf(q.folded, q.lead)
  BY Zenon DEF LeadOk
<1>2. LeadOf(t.folded, t.lead)
  <2>1. LeadOf(s.folded \cup {b}, s.lead)
    BY <1>1, LeadWithinEpoch, Zenon
  <2> QED
    BY <2>1, Zenon
<1>3. Rewinds(t) = Rewinds(s)
  BY Zenon DEF Rewinds
<1> QED
  BY <1>1, <1>2, <1>3, Zenon DEF LeadOk

\* The leadership a boundary freezes has the tip of the fold as its source and the
\* checkpoint as its mark.
LEMMA FrozenFields ==
    ASSUME NEW b, EpochOf(Slot[b]) \in Nat, Tip(store.folded) \in Blocks, cp \in SUBSET Blocks
    PROVE  /\ FrozenAt(b) \in Frozen /\ FrozenAt(b).epoch = EpochOf(Slot[b]) + 1
           /\ FrozenAt(b).source = Tip(store.folded) /\ FrozenAt(b).mark = cp
  BY DEF FrozenAt, Frozen

\* An advance over a boundary also freezes a leadership object.
LEMMA CrossFields ==
    \A s \in Stores, b \in Blocks, frozen \in Frozen :
        LET t == AdvanceWithLeadership(s, b, frozen)
        IN  /\ t \in Stores
            /\ t.folded = s.folded \cup {b}
            /\ t.lead = {l \in s.lead : l.epoch # frozen.epoch} \cup {frozen}
            /\ t.certified = TRUE
            /\ t.staged = s.staged /\ t.settled = s.settled
<1> TAKE s \in Stores, b \in Blocks, frozen \in Frozen
<1> DEFINE a == AdvanceStore(s, b)
<1>1. /\ a \in Stores /\ a.folded = s.folded \cup {b}
      /\ a.lead = s.lead /\ a.certified = TRUE
      /\ a.staged = s.staged /\ a.settled = s.settled
  BY AdvanceFields, Zenon
<1>2. AdvanceWithLeadership(s, b, frozen)
        = [a EXCEPT !.lead = {l \in a.lead : l.epoch # frozen.epoch} \cup {frozen}]
  BY DEF AdvanceWithLeadership
<1> HIDE DEF a
<1>3. {l \in a.lead : l.epoch # frozen.epoch} \cup {frozen} \in SUBSET Frozen
  BY <1>1 DEF Stores
<1> QED
  BY <1>1, <1>2, <1>3 DEF Stores

\* A recertification sets the anchor and nothing else.
LEMMA RecertifyFields ==
    ASSUME NEW s \in Stores, NEW S
    PROVE  LET t == RecertifySettled(s, S)
           IN  /\ t \in Stores /\ t.folded = s.folded /\ t.lead = s.lead
               /\ t.staged = s.staged /\ t.settled = s.settled
               /\ \/ t.certified = s.certified
                  \/ /\ t.certified = TRUE
                     /\ \E p \in s.settled : Tip(p.folded) \in S
  BY Zenon DEF RecertifySettled, Stores

\* Aging stages the current content, and settles a staged point or none.
LEMMA RollSettledFields ==
    ASSUME NEW s \in Stores, NEW n \in Nat
    PROVE  LET t == RollSettled(s, n)
           IN  /\ t \in Stores /\ t.folded = s.folded /\ t.lead = s.lead
               /\ t.certified = s.certified
               /\ \/ t = s
                  \/ /\ s.certified /\ t.staged = {Baseline(s)}
                     /\ t.settled = s.settled \/ t.settled \subseteq s.staged
<1> DEFINE aged == {p \in s.staged : Height(p.folded) + SecurityParam <= n}
<1>1. aged \in SUBSET s.staged
  OBVIOUS
<1>2. \/ RollSettled(s, n) = s
      \/ /\ s.certified
         /\ RollSettled(s, n) = [s EXCEPT !.settled = IF aged = {} THEN @ ELSE aged,
                                          !.staged = {Baseline(s)}]
  BY DEF RollSettled, Stores
<1>3. Baseline(s) \in Points
  BY DEF Baseline, Points, Stores
<1> HIDE DEF aged
<1>4. CASE RollSettled(s, n) = s
  BY <1>4
<1>5. CASE /\ s.certified
           /\ RollSettled(s, n) = [s EXCEPT !.settled = IF aged = {} THEN @ ELSE aged,
                                            !.staged = {Baseline(s)}]
  <2>1. CASE aged = {}
    <3>1. RollSettled(s, n) = [s EXCEPT !.settled = s.settled, !.staged = {Baseline(s)}]
      BY <1>5, <2>1
    <3>2. RollSettled(s, n) = [s EXCEPT !.staged = {Baseline(s)}]
      BY <3>1, Zenon DEF Stores
    <3> DEFINE t == RollSettled(s, n)
    <3>3. t \in Stores
      BY <1>3, <3>2 DEF Stores
    <3>4. /\ t.folded = s.folded /\ t.lead = s.lead /\ t.certified = s.certified
          /\ t.settled = s.settled /\ t.staged = {Baseline(s)}
      BY <3>2 DEF Stores
    <3> HIDE DEF t
    <3>5. /\ t \in Stores /\ t.folded = s.folded /\ t.lead = s.lead
          /\ t.certified = s.certified /\ s.certified /\ t.staged = {Baseline(s)}
          /\ t.settled = s.settled
      BY <1>5, <3>3, <3>4
    <3> QED
      BY <3>5 DEF t
  <2>2. CASE aged # {}
    BY <1>1, <1>3, <1>5, <2>2, Zenon DEF Stores
  <2> QED
    BY <2>1, <2>2
<1> QED
  BY <1>2, <1>4, <1>5

-----------------------------------------------------------------------------
(* The accumulator against the chain.                                        *)

\* The seed's accumulator is on every chain.
LEMMA SealedOk ==
    ASSUME NEW S, S \subseteq Blocks
    PROVE  Sealed \in Stores /\ StoreOk(Sealed, S) /\ LeadOk(Sealed)
<1>1. Sealed \in Stores
  BY DEF Sealed, Stores
<1>2. EpochAt({}) = 0 /\ EpochAt(S) \in Nat
  BY EpochBounds
<1>3. Shares({}, S)
  <2>1. ASSUME NEW b \in S PROVE ~(EpochOf(Slot[b]) < 0)
    BY EpochBounds
  <2>2. Before({}, 0) = {} /\ Before(S, 0) = {}
    BY <2>1 DEF Before
  <2> QED
    BY <1>2, <2>2, LinkedEmpty DEF Shares
<1>4. LeadOf({}, {})
  BY <1>2 DEF LeadOf
<1> QED
  BY <1>1, <1>3, <1>4 DEF StoreOk, LeadOk, Sealed, Rewinds

\* The accumulator stays good while the chain keeps its earlier epochs and,
\* if the accumulator is certified, its blocks.
LEMMA StoreKeeps ==
    ASSUME NEW s, NEW S, S \subseteq Blocks, NEW T, T \subseteq Blocks,
           StoreOk(s, S), Keeps(S, T), s.certified => S \subseteq T
    PROVE  StoreOk(s, T)
<1>1. Shares(s.folded, T) /\ \A q \in Rewinds(s) : Shares(q.folded, T)
  BY KeepsShares DEF StoreOk
<1> QED
  BY <1>1 DEF StoreOk, OnChain

\* While the accumulator may be folded into, it is the stored chain up to its
\* cursor.
LEMMA StoreOnChain ==
    ASSUME NEW s, NEW S, Linked(S), StoreOk(s, S), s.certified \/ s.folded = {}
    PROVE  s.folded = Upto(S, LastSlot(s.folded))
<1>1. CASE s.certified
  BY <1>1, OnChainIsPrefix DEF StoreOk, Shares
<1>2. CASE s.folded = {}
  <2>1. LastSlot(s.folded) = AnchorSlot /\ \A b \in S : AnchorSlot \in Nat /\ Slot[b] \in Nat
                                                         /\ AnchorSlot < Slot[b]
    BY <1>2, SlotIsNat DEF LastSlot, Linked
  <2>2. Upto(S, AnchorSlot) = {}
    BY <2>1 DEF Upto
  <2> QED
    BY <1>2, <2>1, <2>2
<1> QED
  BY <1>1, <1>2

\* An advance over the next stored block keeps the accumulator on the chain.
LEMMA StoreAdvances ==
    ASSUME NEW s \in Stores, NEW S, Linked(S), StoreOk(s, S), s.certified \/ s.folded = {},
           NEW b \in NextStored(S, s.folded),
           NEW t, t.folded = s.folded \cup {b}, t.certified = TRUE,
           t.staged = s.staged, t.settled = s.settled
    PROVE  StoreOk(t, S)
<1>1. s.folded = Upto(S, LastSlot(s.folded))
  BY StoreOnChain
<1>2. /\ s.folded \cup {b} = Upto(S, Slot[b]) /\ LastSlot(s.folded \cup {b}) = Slot[b]
      /\ Tip(s.folded \cup {b}) = b /\ b \in S
  BY <1>1, NextExtends
<1>3. Shares(t.folded, S) /\ OnChain(t.folded, S)
  <2>1. t.folded = Upto(S, LastSlot(t.folded)) /\ t.folded # {}
    BY <1>2
  <2> QED
    BY <2>1, PrefixShares
<1>4. Rewinds(t) = Rewinds(s)
  BY DEF Rewinds
<1>5. \A q \in Rewinds(s) : OnChain(q.folded, S)
  <2>1. CASE s.certified
    BY <2>1 DEF StoreOk
  <2>2. CASE ~s.certified
    <3>1. s.staged = {} /\ \A q \in s.settled : q.folded = {} /\ q.folded # {}
      BY <2>2 DEF StoreOk, Rewinds, Baseline
    <3> QED
      BY <3>1 DEF Rewinds
  <2> QED
    BY <2>1, <2>2
<1> QED
  BY <1>3, <1>4, <1>5 DEF StoreOk

\* The pre-clear of a rollback leaves an accumulator without an anchor.
LEMMA ClearOk ==
    ASSUME NEW s \in Stores, NEW S, S \subseteq Blocks, StoreOk(s, S), NEW t
    PROVE  LET c == ClearForRollback(s, S, t)
           IN  /\ c \in Stores /\ StoreOk(c, S) /\ c.certified = FALSE
               /\ LeadOk(s) => LeadOk(c)
<1>0. s.certified \in BOOLEAN
  BY DEF Stores
<1>1. CASE ~s.certified
  BY <1>0, <1>1 DEF ClearForRollback
<1>2. CASE s.certified /\ ~SettledRewindAdmissible(s, S, t)
  <2>1. ClearForRollback(s, S, t) = Sealed
    BY <1>2 DEF ClearForRollback, ResetToBootstrap
  <2> QED
    BY <2>1, SealedOk DEF Sealed
<1>3. CASE s.certified /\ SettledRewindAdmissible(s, S, t)
  <2> DEFINE c == ResetToSettled(s)
  <2>1. ClearForRollback(s, S, t) = c
    BY <1>3 DEF ClearForRollback
  <2>2. PICK p \in s.settled : TRUE
    BY <1>3 DEF SettledRewindAdmissible
  <2>3. \A q \in s.settled : q = p
    BY DEF StoreOk
  <2>4. /\ c \in Stores /\ c.folded = p.folded /\ c.lead = p.lead
        /\ c.certified = FALSE /\ c.staged = {} /\ c.settled = s.settled
    BY <2>3, ResetToSettledFields, Zenon
  <2> HIDE DEF c
  <2>5. p = Baseline(c)
    <3>1. p \in Points
      BY DEF Stores
    <3>2. p = [folded |-> p.folded, lead |-> p.lead]
      BY <3>1 DEF Points
    <3> QED
      BY <2>4, <3>2 DEF Baseline
  <2>6. StoreOk(c, S)
    BY <2>2, <2>3, <2>4, <2>5 DEF StoreOk, Rewinds
  <2>7. LeadOk(s) => LeadOk(c)
    BY <2>4 DEF LeadOk, Rewinds
  <2> QED
    BY <2>1, <2>4, <2>6, <2>7
<1> QED
  BY <1>1, <1>2, <1>3, Zenon

\* The anchor returns only over a fold of the chain as it is now.
LEMMA RecertifyOk ==
    ASSUME NEW s \in Stores, NEW S, StoreOk(s, S), ~s.certified
    PROVE  LET c == RecertifySettled(s, S)
           IN  c \in Stores /\ StoreOk(c, S) /\ (LeadOk(s) => LeadOk(c))
<1> DEFINE c == RecertifySettled(s, S)
<1>1. /\ c \in Stores /\ c.folded = s.folded /\ c.lead = s.lead
      /\ c.staged = s.staged /\ c.settled = s.settled
      /\ \/ c.certified = s.certified
         \/ c.certified = TRUE /\ \E p \in s.settled : Tip(p.folded) \in S
  BY RecertifyFields, Zenon
<1> HIDE DEF c
<1>2. LeadOk(s) => LeadOk(c)
  BY <1>1 DEF LeadOk, Rewinds
<1>3. Baseline(c) = Baseline(s) /\ Rewinds(c) = Rewinds(s)
  BY <1>1 DEF Baseline, Rewinds
<1>4. StoreOk(c, S)
  <2>1. CASE c.certified = s.certified
    BY <1>1, <1>3, <2>1 DEF StoreOk
  <2>2. CASE c.certified = TRUE /\ \E p \in s.settled : Tip(p.folded) \in S
    <3>1. PICK p \in s.settled : Tip(p.folded) \in S
      BY <2>2
    <3>2. s.staged = {} /\ p = Baseline(s) /\ \A q \in s.settled : q = p
      BY DEF StoreOk
    <3>3. p.folded # {} /\ p.folded = s.folded
      BY <3>2 DEF StoreOk, Rewinds, Baseline
    <3>4. OnChain(s.folded, S) /\ \A q \in Rewinds(s) : OnChain(q.folded, S)
      BY <3>1, <3>2, <3>3 DEF OnChain, Rewinds
    <3> QED
      BY <1>1, <1>3, <2>2, <3>4 DEF StoreOk
  <2> QED
    BY <1>1, <2>1, <2>2, Zenon
<1> QED
  BY <1>1, <1>2, <1>4 DEF c

\* Aging keeps rewind points of the chain.
LEMMA RollSettledOk ==
    ASSUME NEW s \in Stores, NEW S, StoreOk(s, S), NEW n \in Nat
    PROVE  LET c == RollSettled(s, n)
           IN  /\ c \in Stores /\ c.folded = s.folded /\ c.certified = s.certified
               /\ StoreOk(c, S) /\ (LeadOk(s) => LeadOk(c))
<1> DEFINE c == RollSettled(s, n)
<1>1. /\ c \in Stores /\ c.folded = s.folded /\ c.lead = s.lead
      /\ c.certified = s.certified
      /\ \/ c = s
         \/ /\ s.certified /\ c.staged = {Baseline(s)}
            /\ c.settled = s.settled \/ c.settled \subseteq s.staged
  BY RollSettledFields
<1> HIDE DEF c
<1>2. CASE c = s
  BY <1>1, <1>2 DEF c
<1>3. CASE /\ s.certified /\ c.staged = {Baseline(s)}
           /\ c.settled = s.settled \/ c.settled \subseteq s.staged
  <2>1. Baseline(s).folded = s.folded /\ Baseline(s).lead = s.lead
    BY DEF Baseline
  <2>2. \A q \in Rewinds(c) : q \in Rewinds(s) \/ q = Baseline(s)
    BY <1>3 DEF Rewinds
  <2>3. StoreOk(c, S)
    <3>1. OnChain(s.folded, S) /\ s.folded # {}
      BY <1>3 DEF StoreOk, OnChain
    <3>2. \A q \in Rewinds(c) : Shares(q.folded, S) /\ q.folded # {} /\ OnChain(q.folded, S)
      BY <1>3, <2>1, <2>2, <3>1 DEF StoreOk
    <3>3. /\ \A p, q \in c.staged : p = q
          /\ \A p, q \in c.settled : p = q
      BY <1>3 DEF StoreOk
    <3> QED
      BY <1>1, <1>3, <3>1, <3>2, <3>3, Zenon DEF StoreOk
  <2>4. LeadOk(s) => LeadOk(c)
    BY <1>1, <2>1, <2>2 DEF LeadOk
  <2> QED
    BY <1>1, <2>3, <2>4 DEF c
<1> QED
  BY <1>1, <1>2, <1>3

-----------------------------------------------------------------------------
(* The sync pass.                                                            *)

\* A block on the tip leaves the view of every epoch up to its own.
LEMMA AdmitKeepsView ==
    ASSUME NEW S, Linked(S), NEW b \in Blocks, Parent[b] = TipPoint(S),
           NEW e \in Nat, 1 <= e, e <= EpochOf(Slot[b])
    PROVE  ExactView(S \cup {b}, e) = ExactView(S, e) /\ Before(S \cup {b}, e) = Before(S, e)
<1>1. EpochOf(Slot[b]) \in Nat
  BY SlotIsNat, EpochMonotone
<1>2. ~(EpochOf(Slot[b]) < e) /\ ~(EpochOf(Slot[b]) < e - 1)
  BY <1>1
<1>3. Before(S \cup {b}, e) = Before(S, e) /\ Before(S \cup {b}, e - 1) = Before(S, e - 1)
  BY <1>2 DEF Before
<1> QED
  BY <1>3 DEF ExactView

\* Nothing is stored at the start, and all is at the seed.
LEMMA InitOk == Init => IInv
<1> SUFFICES ASSUME Init PROVE IInv
  OBVIOUS
<1>1. Linked(db) /\ Steps(db) /\ db \subseteq Blocks
  BY LinkedEmpty DEF Init, Steps
<1>2. EpochAt(db) = 0 /\ Before(db, 0) = {}
  BY <1>1, EpochBounds DEF Init, Before
<1>3. store \in Stores /\ StoreOk(store, db) /\ LeadOk(store)
  BY <1>1, SealedOk DEF Init
<1>4. ActiveRecords = {}
  BY DEF Init, ActiveRecords
<1>5. TypeOK
  <2>1. wal \in Seq(Records) /\ cp \in SUBSET Blocks
    BY DEF Init
  <2>2. authority \in Views
    BY DEF Init, SeedView, Views
  <2> QED
    BY <1>3, <2>1, <2>2, Zenon DEF Init, TypeOK
<1>6. CheckpointOk /\ RecordsOk
  BY <1>2, <1>4, LinkedEmpty DEF Init, CheckpointOk, RecordsOk, Passing
<1>7. PcOk
  BY <1>2, <1>4 DEF Init, PcOk, InForce, SeedView, Passing
<1>8. FaultOk
  BY DEF Init, FaultOk, RecoveryAdmitted, NoMismatch
<1> QED
  BY <1>1, <1>3, <1>5, <1>6, <1>7, <1>8 DEF IInv, ChainOk, Init

\* While chain and log stay, the standing records do.
LEMMA RecordsStay ==
    ASSUME RecordsOk, UNCHANGED <<db, wal>>, ~spliced' => ~spliced
    PROVE  RecordsOk' /\ ActiveRecords' = ActiveRecords
<1>1. ActiveRecords' = ActiveRecords
  BY DEF ActiveRecords
<1> QED
  BY <1>1 DEF RecordsOk

\* An error that ends the process disturbs nothing.
LEMMA HaltKeeps ==
    ASSUME IInv, NEW cause, Halt(cause), cause # "RecoveryAdmission",
           ~spliced => cause \notin {"EpochViewPostPromotionMismatch", "AccumulatorWalkHalted"}
    PROVE  IInv'
<1>1. TypeOK'
  BY DEF IInv, Halt, TypeOK
<1>2. ChainOk' /\ StoreOk(store, db)' /\ (~spliced => LeadOk(store) /\ memo = {})'
  BY DEF IInv, Halt, ChainOk
<1>3. CheckpointOk'
  BY DEF IInv, Halt, CheckpointOk, Passing
<1>4. RecordsOk'
  BY RecordsStay DEF IInv, Halt
<1>5. PcOk'
  BY DEF Halt, PcOk, Passing
<1>6. FaultOk'
  BY DEF Halt, FaultOk, RecoveryAdmitted, NoMismatch
<1> QED
  BY <1>1, <1>2, <1>3, <1>4, <1>5, <1>6 DEF IInv

\* The pump admits a block of the epoch in force.
LEMMA AdmitBlockKeeps ==
    ASSUME IInv, NEW b \in Blocks, AdmitBlock(b)
    PROVE  IInv'
<1>0. /\ Linked(db) /\ db \subseteq Blocks /\ db' = db \cup {b} /\ Parent[b] = TipPoint(db)
      /\ pc = "sync" /\ pc' = "sync" /\ InForce /\ wal \in Seq(Records)
      /\ UNCHANGED <<store, cp, wal, authority, memo, warm, arg, fault, spliced>>
  BY Zenon DEF IInv, ChainOk, Linked, AdmitBlock, PcOk, TypeOK
<1>1. Keeps(db, db') /\ EpochAt(db') = EpochAt(db) /\ EpochOf(Slot[b]) = EpochAt(db)
  BY <1>0, AdmitKeeps, Zenon DEF AdmitBlock, InForce
<1>2. EpochAt(db) \in Nat /\ db' \subseteq Blocks /\ db' # {}
  BY <1>0, EpochBounds
<1>3. Linked(db')
  BY <1>0, LinkedExtend, Zenon
<1>4. Steps(db')
  <2>1. CASE db = {}
    <3>1. EpochAt(db) = 0 /\ Parent[b] = Anchor
      BY <1>0, <2>1, EpochBounds, Zenon DEF TipPoint
    <3> QED
      BY <1>0, <1>1, <2>1, <3>1 DEF Steps
  <2>2. CASE db # {}
    <3>1. Parent[b] = Tip(db) /\ Tip(db) \in Blocks /\ EpochAt(db) = EpochOf(Slot[Tip(db)])
      BY <1>0, <2>2, EpochBounds, TipIsMax DEF TipPoint
    <3>2. Parent[b] # Anchor /\ EpochOf(Slot[b]) <= EpochOf(Slot[Parent[b]]) + 1
      BY <1>1, <1>2, <3>1, AnchorAssumption
    <3> QED
      BY <1>0, <3>2, Zenon DEF IInv, ChainOk, Steps
  <2> QED
    BY <2>1, <2>2
<1>5. StoreOk(store', db')
  BY <1>0, <1>1, <1>2, StoreKeeps DEF IInv
<1>6. ActiveRecords' = ActiveRecords
  BY <1>0, Zenon DEF ActiveRecords
<1>7. RecordsOk'
  <2>1. ASSUME NEW i \in ActiveRecords PROVE ExactView(db', wal[i].epoch) = ExactView(db, wal[i].epoch)
    <3>1. wal[i].epoch \in Nat /\ 1 <= wal[i].epoch /\ wal[i].epoch <= EpochAt(db)
      BY <1>0, StandingRecord DEF IInv, RecordsOk, InForce
    <3> QED
      BY <1>0, <1>1, <3>1, AdmitKeepsView, Zenon
  <2> QED
    BY <1>0, <1>1, <1>6, <2>1, Zenon DEF IInv, RecordsOk
<1>8. InForce'
  <2>1. Before(db', EpochAt(db)) = Before(db, EpochAt(db))
    BY <1>1, <1>2 DEF Keeps
  <2> QED
    BY <1>0, <1>1, <1>6, <2>1, Zenon DEF InForce
<1>9. TypeOK' /\ FaultOk' /\ CheckpointOk'
  BY <1>0, <1>2 DEF IInv, TypeOK, FaultOk, RecoveryAdmitted, NoMismatch, CheckpointOk,
                  Passing
<1>10. PcOk'
  BY <1>0, <1>8 DEF PcOk, Passing
<1> QED
  BY <1>0, <1>3, <1>4, <1>5, <1>7, <1>9, <1>10, Zenon DEF IInv, ChainOk

\* Before the first block of an epoch is validated, a view of the stored chain
\* is logged and put in force.
LEMMA PrepareAuthorityKeeps ==
    ASSUME IInv, NEW b \in Blocks, PrepareAuthority(b)
    PROVE  IInv'
<1> DEFINE e == EpochOf(Slot[b])
<1>0. /\ Linked(db) /\ db \subseteq Blocks /\ Parent[b] = TipPoint(db) /\ pc = "sync"
      /\ InForce /\ wal \in Seq(Records) /\ store \in Stores /\ EpochAt(db) \in Nat
  BY EpochBounds, Zenon DEF IInv, ChainOk, Linked, PrepareAuthority, PcOk, TypeOK
<1>1. CASE \E cause \in {"Pump", "CandidateSlotSkipsBoundary",
                         "PromotionLeadershipUnavailable"} : Halt(cause)
  BY <1>1, HaltKeeps
<1>2. CASE /\ db # {} /\ e = authority.epoch + 1
           /\ \E v \in BoundView(e) :
                /\ wal' = Append(wal, [kind |-> "Activated", epoch |-> e, view |-> v])
                /\ authority' = v
           /\ pc' = "pump" /\ arg' = b
           /\ UNCHANGED <<db, store, cp, memo, warm, fault, spliced, rollBacks, crashes>>
  <2> DEFINE n == Len(wal) + 1
  <2>1. PICK v \in BoundView(e) :
           wal' = Append(wal, [kind |-> "Activated", epoch |-> e, view |-> v]) /\ authority' = v
    BY <1>2, Zenon
  <2>2. e = EpochAt(db) + 1 /\ e \in Nat /\ e - 1 = EpochAt(db)
    BY <1>0, <1>2 DEF InForce
  <2>3. v.epoch = e /\ v.nonce = Before(db, e) /\ v \in Views
    <3>0. Nonce(e) = Before(db, e) /\ Before(db, e) \in SUBSET Blocks
      BY <1>0, Zenon DEF Nonce, Before
    <3>1. CASE e = 1
      BY <2>1, <2>2, <3>0, <3>1 DEF BoundView, Views
    <3>2. CASE e # 1
      <4>1. PICK l \in Promotable(store, e) :
               v = [epoch |-> e, source |-> l.source, mark |-> l.mark, nonce |-> Nonce(e)]
        BY <2>1, <3>2, Zenon DEF BoundView
      <4>2. l \in Frozen
        BY <1>0 DEF Promotable, Stores
      <4> QED
        BY <2>2, <3>0, <4>1, <4>2, Zenon DEF Views, Frozen
    <3> QED
      BY <3>1, <3>2
  <2>4. ~spliced => v = ExactView(db, e)
    <3>1. CASE e = 1
      BY <2>1, <3>1, Zenon DEF BoundView, ExactView, Nonce, Before
    <3>2. CASE e # 1 /\ ~spliced
      <4>1. PICK l \in Promotable(store, e) :
               v = [epoch |-> e, source |-> l.source, mark |-> l.mark, nonce |-> Nonce(e)]
        BY <2>1, <3>2, Zenon DEF BoundView
      <4>2. l \in store.lead /\ l.epoch = e
        BY Zenon DEF Promotable
      <4>3. LeadOf(store.folded, store.lead) /\ Shares(store.folded, db)
        BY <3>2, Zenon DEF IInv, LeadOk, StoreOk
      <4>4. /\ l.epoch \in 2..EpochAt(store.folded) + 1
            /\ l.mark = Before(store.folded, e - 1)
            /\ l.source = Tip(Before(store.folded, e - 1))
        BY <4>2, <4>3, Zenon DEF LeadOf
      <4>5. EpochAt(store.folded) = e - 1
        <5>1. EpochAt(store.folded) \in Nat /\ EpochAt(store.folded) <= EpochAt(db)
          BY <4>3, EpochBounds DEF Shares, Linked
        <5>2. e \in 2..EpochAt(store.folded) + 1
          BY <4>2, <4>4, Zenon
        <5> QED
          BY <1>0, <2>2, <5>1, <5>2, LastFrozen, Zenon
      <4>6. Before(store.folded, e - 1) = Before(db, e - 1)
        BY <4>3, <4>5, Zenon DEF Shares
      <4> QED
        BY <3>2, <4>1, <4>4, <4>6, Zenon DEF ExactView, Nonce, Before
    <3> QED
      BY <3>1, <3>2, Zenon
  <2> DEFINE r == [kind |-> "Activated", epoch |-> e, view |-> v]
  <2>5. r \in Records /\ r.kind = "Activated" /\ r.epoch = e /\ r.view = v
    BY <2>2, <2>3, Zenon DEF Records
  <2>6. wal' = Append(wal, r) /\ authority' = v
    BY <2>1
  <2> HIDE DEF r, e
  <2>7. /\ wal' \in Seq(Records) /\ ActiveRecords' = ActiveRecords \cup {n}
        /\ \A i \in ActiveRecords : wal'[i] = wal[i]
        /\ wal'[n] = r
    BY <1>0, <2>5, <2>6, PromotionStands, Zenon
  <2>8. RecordsOk'
    <3>1. \A i \in ActiveRecords' : 1 <= wal'[i].epoch /\ wal'[i].epoch <= EpochAt(db) + 1
      <4>1. 1 <= e /\ e <= EpochAt(db) + 1
        BY <1>0, <2>2, NextEpoch, Zenon
      <4>2. 1 <= r.epoch /\ r.epoch <= EpochAt(db) + 1
        BY <2>5, <4>1, Zenon
      <4>3. \A i \in ActiveRecords : 1 <= wal[i].epoch /\ wal[i].epoch <= EpochAt(db) + 1
        BY Zenon DEF IInv, RecordsOk
      <4> HIDE DEF n
      <4> QED
        BY <2>7, <4>2, <4>3, Zenon
    <3>2. EpochAt(db) > 0 => \E i \in ActiveRecords' : wal'[i].epoch = EpochAt(db)
      BY <2>7 DEF IInv, RecordsOk
    <3>3. ~spliced => \A i \in ActiveRecords' : wal'[i].view = ExactView(db, wal'[i].epoch)
      BY <2>4, <2>5, <2>7 DEF IInv, RecordsOk
    <3> QED
      BY <1>2, <3>1, <3>2, <3>3, Zenon DEF RecordsOk
  <2>9. PcOk'
    <3>1. \E i \in ActiveRecords' : wal'[i].epoch = EpochAt(db) + 1
      BY <2>2, <2>5, <2>7, Zenon
    <3> QED
      BY <1>0, <1>2, <2>2, <2>3, <2>6, <3>1, Zenon DEF PcOk, Passing, e
  <2>10. TypeOK'
    BY <1>2, <2>3, <2>6, <2>7 DEF IInv, TypeOK
  <2>11. FaultOk' /\ CheckpointOk' /\ ChainOk'
    BY <1>2, Zenon DEF IInv, FaultOk, RecoveryAdmitted, NoMismatch, CheckpointOk, Passing,
                ChainOk
  <2> QED
    BY <1>2, <2>8, <2>9, <2>10, <2>11 DEF IInv
<1> QED
  BY <1>1, <1>2, Zenon DEF PrepareAuthority

\* The first block of the new epoch is admitted under its authority.
LEMMA PumpFirstBlockKeeps ==
    ASSUME IInv, PumpFirstBlock
    PROVE  IInv'
<1>0. /\ Linked(db) /\ db \subseteq Blocks /\ db # {} /\ wal \in Seq(Records)
      /\ arg \in Blocks /\ Parent[arg] = TipPoint(db)
      /\ db' = db \cup {arg} /\ pc' = "coadvance" /\ warm' = FALSE
      /\ EpochOf(Slot[arg]) = EpochAt(db) + 1 /\ EpochAt(db) \in Nat
      /\ UNCHANGED <<store, cp, wal, authority, memo, arg, fault, spliced>>
  BY EpochBounds, Zenon DEF IInv, ChainOk, Linked, PumpFirstBlock, PcOk, TypeOK
<1>1. /\ Keeps(db, db') /\ db' \subseteq Blocks /\ db' # {}
      /\ EpochAt(db') = EpochAt(db) + 1 /\ EpochAt(db') = EpochOf(Slot[arg])
      /\ EpochAt(db') \in Nat /\ 1 <= EpochAt(db')
  <2>1. Keeps(db, db') /\ db' \subseteq Blocks /\ db' # {} /\ EpochAt(db') = EpochOf(Slot[arg])
    BY <1>0, AdmitKeeps, Zenon
  <2>2. EpochAt(db) + 1 \in Nat /\ 1 <= EpochAt(db) + 1
    BY <1>0
  <2> QED
    BY <1>0, <2>1, <2>2, Zenon
<1>2. Linked(db')
  BY <1>0, LinkedExtend, Zenon
<1>3. Steps(db')
  <2>0. Tip(db) \in Blocks
    BY <1>0, TipIsMax, Zenon
  <2>1. Parent[arg] = Tip(db) /\ Tip(db) \in Blocks /\ EpochAt(db) = EpochOf(Slot[Tip(db)])
    BY <1>0, <2>0, EpochBounds, Zenon DEF TipPoint
  <2>2. Parent[arg] # Anchor /\ EpochOf(Slot[arg]) <= EpochOf(Slot[Parent[arg]]) + 1
    <3>1. EpochOf(Slot[arg]) <= EpochAt(db) + 1
      BY <1>0, NextEpoch, Zenon
    <3>2. EpochOf(Slot[Parent[arg]]) = EpochAt(db) /\ Parent[arg] # Anchor
      BY <2>1, AnchorAssumption, Zenon
    <3> QED
      BY <3>1, <3>2, Zenon
  <2> QED
    BY <1>0, <2>2 DEF IInv, ChainOk, Steps
<1>4. StoreOk(store', db')
  BY <1>0, <1>1, StoreKeeps DEF IInv
<1>5. ActiveRecords' = ActiveRecords
  BY <1>0, Zenon DEF ActiveRecords
<1>6. ASSUME NEW i \in ActiveRecords
      PROVE  /\ wal[i].epoch \in Nat /\ 1 <= wal[i].epoch /\ wal[i].epoch <= EpochAt(db')
             /\ ExactView(db', wal[i].epoch) = ExactView(db, wal[i].epoch)
  <2>1. wal[i].epoch \in Nat /\ 1 <= wal[i].epoch /\ wal[i].epoch <= EpochAt(db')
    BY <1>0, <1>1, StandingRecord, Zenon DEF IInv, RecordsOk
  <2> QED
    BY <1>0, <1>1, <2>1, AdmitKeepsView, Zenon
<1>7. \E i \in ActiveRecords : wal[i].epoch = EpochAt(db')
  BY <1>1, Zenon DEF IInv, PcOk, PumpFirstBlock
<1>8. RecordsOk'
  <2>1. ASSUME NEW i \in ActiveRecords PROVE wal[i].epoch <= EpochAt(db') + 1
    <3>1. wal[i].epoch \in Nat /\ wal[i].epoch <= EpochAt(db')
      BY <1>6, Zenon
    <3> QED
      BY <1>1, <3>1
  <2> QED
    BY <1>0, <1>5, <1>6, <1>7, <2>1, Zenon DEF IInv, RecordsOk
<1>9. InForce'
  <2>1. authority.epoch = EpochAt(db') /\ authority.nonce = Before(db, EpochAt(db'))
    BY <1>1, Zenon DEF IInv, PcOk, PumpFirstBlock
  <2>2. Before(db', EpochAt(db')) = Before(db, EpochAt(db'))
    <3>1. EpochAt(db') <= EpochOf(Slot[arg])
      BY <1>1
    <3> QED
      BY <1>0, <1>1, <3>1, AdmitKeepsView, Zenon
  <2> QED
    BY <1>0, <1>5, <1>6, <2>1, <2>2, Zenon DEF InForce
<1>10. TypeOK' /\ FaultOk' /\ CheckpointOk'
  BY <1>0, <1>1, Zenon DEF IInv, TypeOK, FaultOk, RecoveryAdmitted, NoMismatch, CheckpointOk,
                  Passing
<1>11. PcOk'
  BY <1>0, <1>9 DEF PcOk, Passing
<1> QED
  BY <1>0, <1>2, <1>3, <1>4, <1>8, <1>10, <1>11, Zenon DEF IInv, ChainOk

\* A rollback within the epoch in force clears the accumulator's anchor first.
LEMMA RollBackKeeps ==
    ASSUME IInv, NEW t \in Blocks, RollBack(t)
    PROVE  IInv'
<1>0. /\ db \subseteq Blocks /\ pc = "sync" /\ InForce /\ store \in Stores /\ t \in db
      /\ StoreOk(store, db) /\ EpochAt(db) \in Nat
      /\ EpochOf(Slot[t]) \in Nat /\ EpochOf(Slot[t]) <= EpochAt(db)
  BY EpochBounds, Zenon DEF IInv, ChainOk, Linked, RollBack, PcOk, TypeOK
<1>1. CASE \E cause \in {"UnexpectedRollback", "ExceededRollback"} : Halt(cause)
  BY <1>1, HaltKeeps
<1>2. CASE /\ EpochOf(Slot[t]) >= authority.epoch
           /\ store' = ClearForRollback(store, db, t)
           /\ pc' = "trim" /\ arg' = t /\ rollBacks' = rollBacks + 1
           /\ UNCHANGED <<db, cp, wal, authority, memo, warm, fault, spliced, crashes>>
  <2>1. /\ store' \in Stores /\ StoreOk(store', db) /\ store'.certified = FALSE
        /\ LeadOk(store) => LeadOk(store')
    BY <1>0, <1>2, ClearOk, Zenon
  <2>2. RecordsOk' /\ ActiveRecords' = ActiveRecords
    BY <1>2, RecordsStay DEF IInv
  <2>3. InForce'
    BY <1>0, <1>2, <2>2, Zenon DEF InForce
  <2>4. EpochOf(Slot[t]) = EpochAt(db)
    BY <1>0, <1>2 DEF InForce
  <2>5. PcOk'
    BY <1>0, <1>2, <2>1, <2>3, <2>4, Zenon DEF PcOk, Passing
  <2>6. TypeOK' /\ FaultOk' /\ CheckpointOk' /\ ChainOk'
    BY <1>2, <2>1 DEF IInv, TypeOK, FaultOk, RecoveryAdmitted, NoMismatch,
                      CheckpointOk, Passing, ChainOk
  <2> QED
    BY <1>2, <2>1, <2>2, <2>5, <2>6 DEF IInv
<1> QED
  BY <1>1, <1>2 DEF RollBack

\* The ChainDb is trimmed only under an accumulator without an anchor, and no
\* boundary is un-crossed.
LEMMA CommitRollBackKeeps ==
    ASSUME IInv, CommitRollBack
    PROVE  IInv'
<1> DEFINE r == [kind |-> "RollBack", epoch |-> EpochOf(Slot[arg])]
<1>0. /\ Linked(db) /\ db \subseteq Blocks /\ wal \in Seq(Records) /\ InForce
      /\ arg \in db /\ EpochOf(Slot[arg]) = EpochAt(db) /\ EpochAt(db) \in Nat
      /\ db' = Upto(db, Slot[arg]) /\ wal' = Append(wal, r) /\ pc' = "recertify"
      /\ ~store.certified
      /\ UNCHANGED <<store, cp, authority, memo, warm, arg, fault, spliced>>
  BY EpochBounds, Zenon DEF IInv, ChainOk, Linked, CommitRollBack, PcOk, TypeOK
<1>1. Keeps(db, db') /\ EpochAt(db') = EpochAt(db) /\ db' # {} /\ Linked(db')
  BY <1>0, TrimKeeps
<1>2. db' \subseteq Blocks /\ db' \subseteq db
  BY <1>0 DEF Upto
<1>3. Steps(db')
  BY <1>2 DEF IInv, ChainOk, Steps
<1>4. StoreOk(store', db')
  BY <1>0, <1>1, <1>2, StoreKeeps, Zenon DEF IInv
<1>5. r \in Records /\ r.kind = "RollBack" /\ r.epoch = EpochAt(db)
  BY <1>0, Zenon DEF Records
<1> HIDE DEF r
<1>6. /\ wal' \in Seq(Records) /\ ActiveRecords' = ActiveRecords
      /\ \A i \in ActiveRecords : wal'[i] = wal[i]
  BY <1>0, <1>5, RollBackUncrosses, Zenon DEF InForce
<1>7. RecordsOk'
  <2>1. ASSUME NEW i \in ActiveRecords PROVE ExactView(db', wal[i].epoch) = ExactView(db, wal[i].epoch)
    <3>1. wal[i].epoch \in Nat /\ 1 <= wal[i].epoch /\ wal[i].epoch <= EpochAt(db)
      BY <1>0, StandingRecord DEF IInv, RecordsOk, InForce
    <3> QED
      BY <1>0, <1>1, <3>1, KeepsView, Zenon
  <2> QED
    BY <1>0, <1>1, <1>6, <2>1, Zenon DEF IInv, RecordsOk
<1>8. InForce'
  <2>1. Before(db', EpochAt(db)) = Before(db, EpochAt(db))
    BY <1>0, <1>1 DEF Keeps
  <2> QED
    BY <1>0, <1>1, <1>6, <2>1, Zenon DEF InForce
<1>9. TypeOK' /\ FaultOk' /\ CheckpointOk'
  BY <1>0, <1>1, <1>6, Zenon DEF IInv, TypeOK, FaultOk, RecoveryAdmitted, NoMismatch,
                  CheckpointOk, Passing
<1>10. PcOk'
  BY <1>0, <1>8 DEF PcOk, Passing
<1> QED
  BY <1>0, <1>1, <1>3, <1>4, <1>7, <1>9, <1>10, Zenon DEF IInv, ChainOk

\* The anchor returns over a settled point of the trimmed chain, or not at all.
LEMMA RecertifyKeeps ==
    ASSUME IInv, Recertify
    PROVE  IInv'
<1>0. /\ store \in Stores /\ StoreOk(store, db) /\ ~store.certified /\ InForce
      /\ pc' = "sync" /\ store' = RecertifySettled(store, db)
      /\ UNCHANGED <<db, cp, wal, authority, memo, warm, arg, fault, spliced>>
  BY DEF IInv, Recertify, PcOk, TypeOK
<1>1. store' \in Stores /\ StoreOk(store', db) /\ (LeadOk(store) => LeadOk(store'))
  BY <1>0, RecertifyOk
<1>2. RecordsOk' /\ ActiveRecords' = ActiveRecords
  BY <1>0, RecordsStay, Zenon DEF IInv
<1>3. PcOk'
  BY <1>0, <1>2, Zenon DEF PcOk, Passing, InForce
<1>4. TypeOK' /\ FaultOk' /\ CheckpointOk' /\ ChainOk'
  BY <1>0, <1>1 DEF IInv, TypeOK, FaultOk, RecoveryAdmitted, NoMismatch,
                    CheckpointOk, Passing, ChainOk
<1> QED
  BY <1>0, <1>1, <1>2, <1>3, <1>4, Zenon DEF IInv

\* The pass ends.
LEMMA EndPassKeeps ==
    ASSUME IInv, EndPass
    PROVE  IInv'
<1>0. /\ InForce /\ pc' = "coadvance" /\ warm' = FALSE
      /\ UNCHANGED <<db, store, cp, wal, authority, memo, arg, fault, spliced>>
  BY DEF IInv, EndPass, PcOk
<1>1. RecordsOk' /\ ActiveRecords' = ActiveRecords
  BY <1>0, RecordsStay, Zenon DEF IInv
<1>2. PcOk'
  BY <1>0, <1>1 DEF PcOk, Passing, InForce
<1>3. TypeOK' /\ FaultOk' /\ CheckpointOk' /\ ChainOk'
  BY <1>0, Zenon DEF IInv, TypeOK, FaultOk, RecoveryAdmitted, NoMismatch,
              CheckpointOk, Passing, ChainOk
<1> QED
  BY <1>0, <1>1, <1>2, <1>3, Zenon DEF IInv

-----------------------------------------------------------------------------
(* The co-advancer.                                                          *)

\* What a step of the co-advancer leaves alone.
LEMMA CoadvanceFrame ==
    ASSUME IInv, UNCHANGED Coadvancing, ~spliced' => ~spliced
    PROVE  /\ UNCHANGED <<db, wal, authority, warm>>
           /\ ChainOk' /\ RecordsOk' /\ (InForce => InForce')
<1>1. UNCHANGED <<db, wal, authority, warm>>
  BY DEF Coadvancing
<1>2. RecordsOk' /\ ActiveRecords' = ActiveRecords
  BY <1>1, RecordsStay DEF IInv
<1> QED
  BY <1>1, <1>2, Zenon DEF IInv, ChainOk, InForce

\* A pass begins: the checkpoint is reset if it is ahead of the tip.
LEMMA StartCoadvanceKeeps ==
    ASSUME IInv, StartCoadvance
    PROVE  IInv'
<1>0. /\ pc = "coadvance" /\ Linked(db) /\ db \subseteq Blocks /\ cp \in SUBSET Blocks
      /\ UNCHANGED Coadvancing /\ UNCHANGED <<store, memo, arg, fault>>
      /\ spliced' = (spliced \/ (~(cp \subseteq db) /\ LastSlot(cp) <= LastSlot(db)))
      /\ spliced \in BOOLEAN
  BY Zenon DEF IInv, ChainOk, Linked, StartCoadvance, TypeOK
<1>1. ~spliced' => ~spliced
  BY <1>0
<1>2. /\ UNCHANGED <<db, wal, authority, warm>>
      /\ ChainOk' /\ RecordsOk' /\ (InForce => InForce')
  BY <1>0, <1>1, CoadvanceFrame
<1>3. cp' = cp \/ (cp' = {} /\ db # {})
  BY DEF StartCoadvance, CheckpointResetIfAhead
<1>4. Upto(db, AnchorSlot) = {} /\ LastSlot({}) = AnchorSlot
  <2>1. \A b \in db : AnchorSlot \in Nat /\ Slot[b] \in Nat /\ AnchorSlot < Slot[b]
    BY <1>0, SlotIsNat
  <2> QED
    BY <2>1 DEF Upto, LastSlot
<1>5. ~spliced' => cp' = Upto(db, LastSlot(cp'))
  <2> SUFFICES ASSUME ~spliced' PROVE cp' = Upto(db, LastSlot(cp'))
    OBVIOUS
  <2>1. CASE cp' = {}
    BY <1>4, <2>1
  <2>2. CASE cp' = cp /\ cp # {}
    <3>1. db # {} /\ Linked(cp)
      BY <1>1, <2>2 DEF IInv, CheckpointOk
    <3>2. ~(LastSlot(cp) > LastSlot(db))
      BY <2>2, <3>1 DEF StartCoadvance, CheckpointResetIfAhead
    <3>3. LastSlot(cp) \in Nat /\ LastSlot(db) \in Nat /\ Tip(cp) \in cp
      BY <1>0, <2>2, LastSlotBounds
    <3>4. cp \subseteq db
      <4>1. LastSlot(cp) <= LastSlot(db)
        BY <3>2, <3>3
      <4> QED
        BY <1>0, <4>1, Zenon
    <3>5. OnChain(cp, db)
      BY <2>2, <3>3, <3>4 DEF OnChain
    <3> QED
      BY <1>0, <2>2, <3>1, <3>5, OnChainIsPrefix
  <2> QED
    BY <1>3, <2>1, <2>2
<1>6. CheckpointOk'
  BY <1>1, <1>2, <1>3, <1>5, LinkedEmpty DEF IInv, CheckpointOk
<1>7. pc' = (IF db = {} THEN "caughtup" ELSE "reconcile") /\ cp' \in SUBSET Blocks
  BY <1>0, <1>3 DEF StartCoadvance
<1>8. PcOk'
  BY <1>0, <1>2, <1>7, Zenon DEF IInv, PcOk, Passing
<1>9. TypeOK' /\ FaultOk'
  BY <1>0, <1>1, <1>2, <1>7, Zenon DEF IInv, TypeOK, FaultOk, RecoveryAdmitted, NoMismatch,
                          Passing
<1> QED
  BY <1>0, <1>1, <1>2, <1>6, <1>8, <1>9, Zenon DEF IInv

\* Recovery admits the accumulator, from the seed if it has no anchor: a
\* certified one is always on the chain.
LEMMA RecoverAdmitKeeps ==
    ASSUME IInv, RecoverAdmit
    PROVE  IInv'
<1>0. /\ pc = "reconcile" /\ db \subseteq Blocks /\ UNCHANGED Coadvancing
      /\ UNCHANGED <<cp, memo, arg, spliced>> /\ StoreOk(store, db) /\ store \in Stores
      /\ db # {}
  BY Zenon DEF IInv, ChainOk, Linked, RecoverAdmit, TypeOK, PcOk
<1>1. /\ UNCHANGED <<db, wal, authority, warm>>
      /\ ChainOk' /\ RecordsOk' /\ (InForce => InForce')
  BY <1>0, CoadvanceFrame, Zenon
<1>2. Reconcile(store, db) \in {"reset", "forward"}
  BY <1>0 DEF Reconcile, StoreOk, OnChain
<1>3. pc' = "fold" /\ fault' = fault
  BY <1>2 DEF RecoverAdmit
<1>4. /\ store' \in Stores /\ StoreOk(store', db) /\ (LeadOk(store) => LeadOk(store'))
      /\ store'.certified \/ store'.folded = {}
  <2>1. CASE Reconcile(store, db) = "reset"
    <3>1. store' = Sealed
      BY <2>1, Zenon DEF RecoverAdmit, ResetToBootstrap
    <3> QED
      BY <1>0, <3>1, SealedOk DEF Sealed
  <2>2. CASE Reconcile(store, db) = "forward"
    BY <1>0, <2>2, Zenon DEF RecoverAdmit, Reconcile
  <2> QED
    BY <1>2, <2>1, <2>2, Zenon
<1>5. PcOk'
  BY <1>0, <1>1, <1>3, <1>4, Zenon DEF IInv, PcOk, Passing
<1>6. CheckpointOk'
  BY <1>0, <1>1, <1>3, Zenon DEF IInv, CheckpointOk, Passing
<1>7. TypeOK' /\ FaultOk'
  BY <1>0, <1>1, <1>3, <1>4, Zenon DEF IInv, TypeOK, FaultOk, RecoveryAdmitted, NoMismatch,
                               Passing
<1> QED
  BY <1>0, <1>1, <1>4, <1>5, <1>6, <1>7, Zenon DEF IInv

\* What holds of the next stored block while the accumulator is folded forward.
LEMMA FoldFacts ==
    ASSUME IInv, store.certified \/ store.folded = {}, NEW b \in NextStored(db, store.folded)
    PROVE  /\ Linked(db) /\ db \subseteq Blocks /\ store \in Stores /\ StoreOk(store, db)
           /\ store.folded = Upto(db, LastSlot(store.folded)) /\ store.folded \subseteq Blocks
           /\ b \in db /\ b \in Blocks
           /\ LastSlot(store.folded) < Slot[b] /\ Parent[b] = TipPoint(store.folded)
           /\ LastSlot(store.folded \cup {b}) = Slot[b]
           /\ EpochAt(store.folded) \in Nat /\ EpochOf(Slot[b]) \in Nat
           /\ EpochAt(store.folded) <= EpochOf(Slot[b])
           /\ EpochOf(Slot[b]) <= EpochAt(store.folded) + 1
           /\ EpochOf(Slot[b]) > EpochAt(store.folded) => store.folded # {}
<1> DEFINE F == store.folded
<1>0. /\ Linked(db) /\ Steps(db) /\ db \subseteq Blocks
      /\ store \in Stores /\ StoreOk(store, db)
  BY Zenon DEF IInv, ChainOk, Linked, TypeOK
<1>1. F \subseteq Blocks
  BY <1>0, Zenon DEF Stores
<1>2. F = Upto(db, LastSlot(F))
  BY <1>0, StoreOnChain, Zenon
<1>b. b \in NextStored(db, F)
  OBVIOUS
<1> HIDE DEF F
<1>3. /\ b \in db /\ b \in Blocks /\ LastSlot(F) < Slot[b] /\ Parent[b] = TipPoint(F)
      /\ LastSlot(F \cup {b}) = Slot[b]
  BY <1>0, <1>2, <1>b, NextExtends, Zenon
<1>4. EpochAt(F) \in Nat /\ EpochOf(Slot[b]) \in Nat /\ EpochAt(F) <= EpochOf(Slot[b])
  <2>1. LastSlot(F) \in Nat /\ Slot[b] \in Nat /\ LastSlot(F) <= Slot[b]
    BY <1>1, <1>3, LastSlotBounds, SlotIsNat, SlotOrder, Zenon
  <2> QED
    BY <2>1, EpochMonotone, Zenon DEF EpochAt
<1>5. CASE F = {}
  <2>1. EpochOf(Slot[b]) = 0 /\ EpochAt(F) = 0
    BY <1>0, <1>1, <1>3, <1>5, EpochBounds, Zenon DEF Steps, TipPoint
  <2>2. EpochOf(Slot[b]) <= EpochAt(F) + 1 /\ ~(EpochOf(Slot[b]) > EpochAt(F))
    BY <2>1, SlotOrder, Zenon
  <2> QED
    BY <1>0, <1>1, <1>2, <1>3, <1>4, <2>2, Zenon DEF F
<1>6. CASE F # {}
  <2>1. Parent[b] = Tip(F) /\ Tip(F) # Anchor /\ EpochAt(F) = EpochOf(Slot[Tip(F)])
    BY <1>1, <1>3, <1>6, TipIsMax, EpochBounds, AnchorAssumption, Zenon DEF TipPoint
  <2>2. EpochOf(Slot[b]) <= EpochAt(F) + 1
    BY <1>0, <1>3, <2>1, Zenon DEF Steps
  <2> QED
    BY <1>0, <1>1, <1>2, <1>3, <1>4, <1>6, <2>2, Zenon DEF F
<1> QED
  BY <1>5, <1>6, Zenon

\* A stored block is folded in, the checkpoint waited for, or a boundary met.
\* On a checkpoint of the chain, the walk does not halt.
LEMMA FoldBlockKeeps ==
    ASSUME IInv, FoldBlock
    PROVE  IInv'
<1>0. pc = "fold" /\ db # {} /\ (store.certified \/ store.folded = {})
  BY Zenon DEF IInv, FoldBlock, PcOk
<1>1. PICK b \in NextStored(db, store.folded) :
       \/ /\ EpochOf(Slot[b]) = EpochAt(store.folded) /\ Applies(b)
          /\ store' = AdvanceStore(store, b)
          /\ UNCHANGED <<Coadvancing, cp, memo, pc, arg, fault, spliced>>
       \/ /\ EpochOf(Slot[b]) = EpochAt(store.folded) /\ ~Applies(b)
          /\ LastSlot(cp) < Slot[b]
          /\ pc' = "catchup" /\ arg' = b
          /\ UNCHANGED <<Coadvancing, cp, store, memo, fault, spliced>>
       \/ /\ EpochOf(Slot[b]) = EpochAt(store.folded) /\ ~Applies(b)
          /\ LastSlot(cp) >= Slot[b]
          /\ Halt("AccumulatorWalkHalted")
       \/ /\ EpochOf(Slot[b]) > EpochAt(store.folded)
          /\ pc' = IF <<b, LastSlot(store.folded)>> \in memo
                   THEN "caughtup" ELSE "position"
          /\ arg' = b
          /\ UNCHANGED <<Coadvancing, cp, store, memo, fault, spliced>>
  BY Zenon DEF FoldBlock
<1>2. /\ Linked(db) /\ db \subseteq Blocks /\ store \in Stores /\ StoreOk(store, db)
      /\ store.folded \subseteq Blocks /\ b \in db /\ b \in Blocks
      /\ LastSlot(store.folded \cup {b}) = Slot[b]
  BY <1>0, FoldFacts, Zenon
<1>3. CASE /\ EpochOf(Slot[b]) = EpochAt(store.folded) /\ Applies(b)
           /\ store' = AdvanceStore(store, b)
           /\ UNCHANGED <<Coadvancing, cp, memo, pc, arg, fault, spliced>>
  <2>1. /\ UNCHANGED <<db, wal, authority, warm>>
        /\ ChainOk' /\ RecordsOk' /\ (InForce => InForce')
    BY <1>3, CoadvanceFrame
  <2>2. /\ store' \in Stores /\ store'.folded = store.folded \cup {b}
        /\ store'.lead = store.lead /\ store'.certified = TRUE
        /\ store'.staged = store.staged /\ store'.settled = store.settled
    BY <1>2, <1>3, AdvanceFields, Zenon
  <2>3. StoreOk(store', db)
    BY <1>0, <1>2, <2>2, StoreAdvances, Zenon
  <2>4. LeadOk(store) => LeadOk(store')
    BY <1>2, <1>3, <2>2, LeadAdvances, Zenon
  <2>5. PcOk'
    BY <1>0, <1>3, <2>1, <2>2, Zenon DEF IInv, PcOk, Passing
  <2>6. CheckpointOk' /\ TypeOK' /\ FaultOk'
    BY <1>3, <2>1, <2>2, Zenon DEF IInv, CheckpointOk, TypeOK, FaultOk, RecoveryAdmitted,
                            NoMismatch
  <2> QED
    BY <1>3, <2>1, <2>3, <2>4, <2>5, <2>6 DEF IInv
<1>4. CASE /\ pc' = "catchup" /\ arg' = b
           /\ UNCHANGED <<Coadvancing, cp, store, memo, fault, spliced>>
  <2>1. /\ UNCHANGED <<db, wal, authority, warm>>
        /\ ChainOk' /\ RecordsOk' /\ (InForce => InForce')
    BY <1>4, CoadvanceFrame, Zenon
  <2>2. PcOk'
    BY <1>0, <1>4, <2>1, Zenon DEF IInv, PcOk, Passing
  <2>3. CheckpointOk' /\ TypeOK' /\ FaultOk'
    BY <1>0, <1>4, <2>1, Zenon DEF IInv, CheckpointOk, TypeOK, FaultOk, RecoveryAdmitted,
                            NoMismatch, Passing
  <2> QED
    BY <1>4, <2>1, <2>2, <2>3 DEF IInv
<1>5. CASE ~Applies(b) /\ LastSlot(cp) >= Slot[b] /\ Halt("AccumulatorWalkHalted")
  <2>1. ASSUME ~spliced PROVE FALSE
    <3>1. cp = Upto(db, LastSlot(cp)) /\ LastSlot(cp) \in Nat
      BY <1>0, <2>1, LastSlotBounds, Zenon DEF IInv, CheckpointOk, Passing, TypeOK
    <3>2. Parent[b] # Anchor /\ Parent[b] \notin cp
      BY <1>5, Zenon DEF Applies
    <3>3. Parent[b] \in db /\ Slot[Parent[b]] < Slot[b]
      BY <1>2, <3>2, LinkedParent, Zenon
    <3>4. Slot[Parent[b]] \in Nat /\ Slot[b] \in Nat
      BY <1>2, <3>3, SlotIsNat, Zenon
    <3>5. Slot[Parent[b]] <= LastSlot(cp)
      BY <1>5, <3>1, <3>3, <3>4
    <3> QED
      BY <3>1, <3>2, <3>3, <3>5, Zenon DEF Upto
  <2> QED
    BY <1>5, <2>1, HaltKeeps
<1>6. CASE /\ EpochOf(Slot[b]) > EpochAt(store.folded)
           /\ pc' = IF <<b, LastSlot(store.folded)>> \in memo THEN "caughtup" ELSE "position"
           /\ arg' = b
           /\ UNCHANGED <<Coadvancing, cp, store, memo, fault, spliced>>
  <2>1. /\ UNCHANGED <<db, wal, authority, warm>>
        /\ ChainOk' /\ RecordsOk' /\ (InForce => InForce')
    BY <1>6, CoadvanceFrame
  <2>2. pc' = "position" \/ (pc' = "caughtup" /\ spliced)
    BY <1>6, Zenon DEF IInv
  <2>3. EpochAt(store.folded) < EpochOf(Slot[b])
    BY <1>0, <1>6, FoldFacts, Zenon
  <2>4. PcOk'
    BY <1>0, <1>6, <2>1, <2>2, <2>3, Zenon DEF IInv, PcOk, Passing
  <2>5. CheckpointOk' /\ TypeOK' /\ FaultOk'
    BY <1>0, <1>6, <2>1, <2>2, Zenon DEF IInv, CheckpointOk, TypeOK, FaultOk, RecoveryAdmitted,
                                  NoMismatch, Passing
  <2> QED
    BY <1>6, <2>1, <2>4, <2>5 DEF IInv
<1> QED
  BY <1>1, <1>3, <1>4, <1>5, <1>6, Zenon

\* The checkpoint folds the next stored block, or starts again from the seed.
LEMMA CheckpointMoves ==
    ASSUME IInv, pc \in Passing, UNCHANGED <<db, spliced>>,
           cp' = {} \/ cp' = cp \cup NextStored(db, cp) \/ cp' = cp
    PROVE  cp' \in SUBSET Blocks /\ CheckpointOk'
<1>0. Linked(db) /\ db \subseteq Blocks /\ cp \in SUBSET Blocks
  BY Zenon DEF IInv, ChainOk, Linked, TypeOK
<1>1. NextStored(db, cp) \subseteq db
  BY DEF NextStored
<1>2. cp' \in SUBSET Blocks /\ (db = {} => cp' = {})
  BY <1>0, <1>1 DEF IInv, CheckpointOk
<1>3. ~spliced => cp' = Upto(db, LastSlot(cp'))
  <2> SUFFICES ASSUME ~spliced PROVE cp' = Upto(db, LastSlot(cp'))
    OBVIOUS
  <2>1. cp = Upto(db, LastSlot(cp))
    BY DEF IInv, CheckpointOk
  <2>2. CASE cp' = {}
    <3>1. \A b \in db : AnchorSlot \in Nat /\ Slot[b] \in Nat /\ AnchorSlot < Slot[b]
      BY <1>0, SlotIsNat
    <3> QED
      BY <2>2, <3>1 DEF Upto, LastSlot
  <2>3. CASE cp' = cp \cup NextStored(db, cp)
    BY <1>0, <2>1, <2>3, PrefixGrows
  <2> QED
    BY <2>1, <2>2, <2>3
<1>4. ~spliced => Linked(cp')
  BY <1>0, <1>3, PrefixShares DEF Shares
<1> QED
  BY <1>2, <1>3, <1>4, Zenon DEF CheckpointOk

\* The checkpoint is advanced to the block that needs it.
LEMMA CatchUpKeeps ==
    ASSUME IInv, CatchUp
    PROVE  IInv'
<1>0. /\ pc = "catchup" /\ pc' \in {"catchup", "fold"}
      /\ cp' = cp \cup NextStored(db, cp) \/ cp' = cp
      /\ UNCHANGED Coadvancing /\ UNCHANGED <<store, memo, arg, fault, spliced>>
  BY DEF CatchUp
<1>1. /\ UNCHANGED <<db, wal, authority, warm>>
      /\ ChainOk' /\ RecordsOk' /\ (InForce => InForce')
  BY <1>0, CoadvanceFrame
<1>2. cp' \in SUBSET Blocks /\ CheckpointOk'
  BY <1>0, <1>1, CheckpointMoves, Zenon DEF Passing
<1>3. PcOk'
  BY <1>0, <1>1, Zenon DEF IInv, PcOk, Passing
<1>4. TypeOK' /\ FaultOk'
  BY <1>0, <1>1, <1>2 DEF IInv, TypeOK, FaultOk, RecoveryAdmitted, NoMismatch, Passing
<1> QED
  BY <1>0, <1>1, <1>2, <1>3, <1>4 DEF IInv

\* The checkpoint is brought to the boundary point.
LEMMA PositionCheckpointKeeps ==
    ASSUME IInv, PositionCheckpoint
    PROVE  IInv'
<1>0. /\ pc = "position" /\ pc' = "position"
      /\ cp' = {} \/ cp' = cp \cup NextStored(db, cp)
      /\ UNCHANGED Coadvancing /\ UNCHANGED <<store, memo, arg, fault, spliced>>
  BY Zenon DEF PositionCheckpoint
<1>1. /\ UNCHANGED <<db, wal, authority, warm>>
      /\ ChainOk' /\ RecordsOk' /\ (InForce => InForce')
  BY <1>0, CoadvanceFrame
<1>2. cp' \in SUBSET Blocks /\ CheckpointOk'
  BY <1>0, <1>1, CheckpointMoves, Zenon DEF Passing
<1>3. PcOk'
  BY <1>0, <1>1, Zenon DEF IInv, PcOk, Passing
<1>4. TypeOK' /\ FaultOk'
  BY <1>0, <1>1, <1>2 DEF IInv, TypeOK, FaultOk, RecoveryAdmitted, NoMismatch
<1> QED
  BY <1>0, <1>1, <1>2, <1>3, <1>4, Zenon DEF IInv

\* A boundary is crossed with the mark of exactly the fold below it.  On a
\* checkpoint of the chain, the crossing block applies.
LEMMA CrossBoundaryKeeps ==
    ASSUME IInv, CrossBoundary
    PROVE  IInv'
<1> DEFINE F == store.folded
<1>0. /\ pc = "position" /\ db # {} /\ (store.certified \/ store.folded = {})
      /\ LastSlot(cp) = LastSlot(store.folded) /\ arg \in NextStored(db, store.folded)
      /\ EpochAt(store.folded) < EpochOf(Slot[arg]) /\ cp \in SUBSET Blocks
      /\ UNCHANGED Coadvancing /\ UNCHANGED <<cp, arg, fault, spliced>>
  BY Zenon DEF IInv, CrossBoundary, PcOk, TypeOK
<1>1. /\ UNCHANGED <<db, wal, authority, warm>>
      /\ ChainOk' /\ RecordsOk' /\ (InForce => InForce')
  BY <1>0, CoadvanceFrame, Zenon
<1>2. /\ Linked(db) /\ db \subseteq Blocks /\ store \in Stores /\ StoreOk(store, db)
      /\ F = Upto(db, LastSlot(F)) /\ F \subseteq Blocks /\ F # {}
      /\ arg \in Blocks /\ Parent[arg] = TipPoint(F) /\ LastSlot(F \cup {arg}) = Slot[arg]
      /\ EpochOf(Slot[arg]) = EpochAt(F) + 1 /\ EpochAt(F) \in Nat
      /\ EpochOf(Slot[arg]) \in Nat
  <2>1. EpochOf(Slot[arg]) > EpochAt(store.folded)
    BY <1>0, FoldFacts, Zenon
  <2>2. EpochOf(Slot[arg]) <= EpochAt(F) + 1 /\ EpochAt(F) \in Nat /\ EpochOf(Slot[arg]) \in Nat
    BY <1>0, FoldFacts, Zenon
  <2>3. EpochOf(Slot[arg]) = EpochAt(F) + 1
    BY <2>1, <2>2
  <2> QED
    BY <1>0, <2>1, <2>3, FoldFacts, Zenon
<1>3. ~spliced => cp = F
  BY <1>0, <1>2, Zenon DEF IInv, CheckpointOk, Passing
<1>4. Tip(F) \in F
  BY <1>2, TipIsMax, Zenon
<1>5. CASE /\ store' = AdvanceWithLeadership(store, arg, FrozenAt(arg))
           /\ pc' = "fold" /\ memo' = memo
  <2> DEFINE frozen == FrozenAt(arg)
  <2>1. /\ frozen \in Frozen /\ frozen.epoch = EpochOf(Slot[arg]) + 1
        /\ frozen.source = Tip(F) /\ frozen.mark = cp
    BY <1>0, <1>2, <1>4, FrozenFields, Zenon
  <2>2. store' = AdvanceWithLeadership(store, arg, frozen)
    BY <1>5
  <2> HIDE DEF frozen
  <2>3. /\ store' \in Stores /\ store'.folded = F \cup {arg}
        /\ store'.lead = {l \in store.lead : l.epoch # frozen.epoch} \cup {frozen}
        /\ store'.certified = TRUE
        /\ store'.staged = store.staged /\ store'.settled = store.settled
    <3>1. store \in Stores /\ arg \in Blocks
      BY <1>2
    <3>2. LET t == AdvanceWithLeadership(store, arg, frozen)
          IN  /\ t \in Stores
              /\ t.folded = store.folded \cup {arg}
              /\ t.lead = {l \in store.lead : l.epoch # frozen.epoch} \cup {frozen}
              /\ t.certified = TRUE
              /\ t.staged = store.staged /\ t.settled = store.settled
      BY <2>1, <3>1, CrossFields, Zenon
    <3> QED
      BY <2>2, <3>2
  <2>4. StoreOk(store', db)
    BY <1>0, <1>2, <2>3, StoreAdvances, Zenon
  <2>5. ~spliced => LeadOk(store')
    <3> SUFFICES ASSUME ~spliced PROVE LeadOk(store')
      OBVIOUS
    <3>1. LeadOf(F, store.lead) /\ \A q \in Rewinds(store) : LeadOf(q.folded, q.lead)
      BY Zenon DEF IInv, LeadOk
    <3>2. LeadOf(F \cup {arg}, store'.lead)
      <4>1. /\ F \subseteq Blocks /\ arg \in Blocks /\ LeadOf(F, store.lead)
            /\ LastSlot(F \cup {arg}) = Slot[arg] /\ EpochOf(Slot[arg]) = EpochAt(F) + 1
            /\ frozen.epoch = EpochOf(Slot[arg]) + 1
            /\ frozen.source = Tip(F) /\ frozen.mark = F
        BY <1>2, <1>3, <2>1, <3>1, Zenon
      <4>2. LeadOf(F \cup {arg}, {l \in store.lead : l.epoch # frozen.epoch} \cup {frozen})
        BY <4>1, LeadAcrossBoundary, Zenon
      <4> QED
        BY <2>3, <4>2, Zenon
    <3> QED
      BY <2>3, <3>1, <3>2 DEF LeadOk, Rewinds
  <2>6. PcOk'
    BY <1>0, <1>1, <1>5, <2>3, Zenon DEF IInv, PcOk, Passing
  <2>7. CheckpointOk' /\ TypeOK' /\ FaultOk'
    BY <1>0, <1>1, <1>5, <2>3, Zenon DEF IInv, CheckpointOk, TypeOK, FaultOk, RecoveryAdmitted,
                                  NoMismatch, Passing
  <2> QED
    BY <1>0, <1>1, <1>5, <2>4, <2>5, <2>6, <2>7, Zenon DEF IInv
<1>6. CASE ~Applies(arg) /\ pc' = "caughtup" /\ store' = store
  <2>1. spliced
    <3>1. Parent[arg] = Tip(F) /\ Parent[arg] \notin cp
      BY <1>2, <1>6, Zenon DEF Applies, TipPoint
    <3> QED
      BY <1>3, <1>4, <3>1, Zenon
  <2>2. PcOk'
    BY <1>0, <1>1, <1>6, <2>1, Zenon DEF IInv, PcOk, Passing
  <2>3. CheckpointOk' /\ TypeOK' /\ FaultOk'
    BY <1>0, <1>1, <1>6, <2>1, Zenon DEF IInv, CheckpointOk, TypeOK, FaultOk, RecoveryAdmitted,
                                  NoMismatch, Passing
  <2> QED
    BY <1>0, <1>1, <1>6, <2>1, <2>2, <2>3, Zenon DEF IInv
<1> QED
  BY <1>5, <1>6, Zenon DEF CrossBoundary

\* The accumulator is at the tip, and its rewind points are aged.
LEMMA ReachedTipKeeps ==
    ASSUME IInv, ReachedTip
    PROVE  IInv'
<1>0. /\ pc = "fold" /\ db # {} /\ (store.certified \/ store.folded = {})
      /\ NextStored(db, store.folded) = {} /\ pc' = "caughtup"
      /\ store' = RollSettled(store, Height(db))
      /\ Linked(db) /\ db \subseteq Blocks /\ store \in Stores /\ StoreOk(store, db)
      /\ UNCHANGED Coadvancing /\ UNCHANGED <<cp, memo, arg, fault, spliced>>
  BY Zenon DEF IInv, ReachedTip, PcOk, TypeOK, ChainOk, Linked
<1>1. /\ UNCHANGED <<db, wal, authority, warm>>
      /\ ChainOk' /\ RecordsOk' /\ (InForce => InForce')
  BY <1>0, CoadvanceFrame, Zenon
<1>2. Height(db) \in Nat
  BY <1>0, TipIsMax, TreeAssumption, Zenon DEF Height
<1>3. /\ store' \in Stores /\ store'.folded = store.folded
      /\ store'.certified = store.certified
      /\ StoreOk(store', db) /\ (LeadOk(store) => LeadOk(store'))
  BY <1>0, <1>2, RollSettledOk, Zenon
<1>4. store.folded = db
  <2>1. store.folded = Upto(db, LastSlot(store.folded))
    BY <1>0, StoreOnChain, Zenon
  <2> QED
    BY <1>0, <2>1, NoNextIsAll, Zenon
<1>5. store'.certified /\ store'.folded = db
  BY <1>0, <1>3, <1>4, Zenon
<1>6. PcOk'
  BY <1>0, <1>1, <1>5, Zenon DEF IInv, PcOk, Passing
<1>7. CheckpointOk' /\ TypeOK' /\ FaultOk'
  BY <1>0, <1>1, <1>3, Zenon DEF IInv, CheckpointOk, TypeOK, FaultOk, RecoveryAdmitted,
                          NoMismatch, Passing
<1> QED
  BY <1>0, <1>1, <1>3, <1>6, <1>7, Zenon DEF IInv

\* The checkpoint is brought to the tip, and the pass ends.
LEMMA CheckpointToTipKeeps ==
    ASSUME IInv, CheckpointToTip
    PROVE  IInv'
<1>0. /\ pc = "caughtup" /\ cp' = cp \cup NextStored(db, cp)
      /\ \/ pc' = "caughtup" \/ (pc' = "recover" /\ warm) \/ (pc' = "sync" /\ ~warm)
      /\ UNCHANGED Coadvancing /\ UNCHANGED <<store, memo, arg, fault, spliced>>
  BY DEF CheckpointToTip
<1>1. /\ UNCHANGED <<db, wal, authority, warm>>
      /\ ChainOk' /\ RecordsOk' /\ (InForce => InForce')
  BY <1>0, CoadvanceFrame
<1>2. cp' \in SUBSET Blocks /\ CheckpointOk'
  BY <1>0, <1>1, CheckpointMoves, Zenon DEF Passing
<1>3. PcOk'
  BY <1>0, <1>1, Zenon DEF IInv, PcOk, Passing
<1>4. TypeOK' /\ FaultOk'
  BY <1>0, <1>1, <1>2, Zenon DEF IInv, TypeOK, FaultOk, RecoveryAdmitted, NoMismatch, Passing
<1> QED
  BY <1>0, <1>1, <1>2, <1>3, <1>4 DEF IInv

-----------------------------------------------------------------------------
(* Restart.                                                                  *)

\* The record a restart selects is for the epoch of the tip or the next one, and
\* the stores of a pass that is through give its view again.
LEMMA SelectedView ==
    ASSUME IInv, pc = "recover", ~spliced, NEW i \in SelectedRecord
    PROVE  /\ wal[i].epoch \in {EpochAt(db), EpochAt(db) + 1}
           /\ wal[i].view \in BoundView(wal[i].epoch)
<1>1. PICK e : e = wal[i].epoch
  BY Zenon
<1>2. PICK d : d = EpochAt(db)
  BY Zenon
<1>3. db \subseteq Blocks /\ wal \in Seq(Records) /\ d \in Nat
  BY <1>2, EpochBounds, Zenon DEF IInv, TypeOK, ChainOk, Linked
<1>4. i \in ActiveRecords /\ \A j \in ActiveRecords : wal[j].epoch <= e
  BY <1>1, Zenon DEF SelectedRecord
<1>5. e \in Nat
  BY <1>1, <1>3, <1>4, StandingRecord
<1>6. 1 <= e /\ e <= d + 1
  BY <1>1, <1>2, <1>4, Zenon DEF IInv, RecordsOk
<1>7. d > 0 => d <= e
  BY <1>2, <1>4, Zenon DEF IInv, RecordsOk
<1>8. e \in {d, d + 1}
  BY <1>3, <1>5, <1>6, <1>7
<1>9. wal[i].view = ExactView(db, e)
  BY <1>1, <1>4, Zenon DEF IInv, RecordsOk
<1>10. Nonce(e) = Before(db, e)
  BY Zenon DEF Nonce, Before
<1>11. CASE e = 1
  BY <1>1, <1>2, <1>8, <1>9, <1>10, <1>11, Zenon DEF BoundView, ExactView
<1>12. CASE e # 1
  <2>1. d # 0 /\ e \in 2..d + 1
    BY <1>3, <1>5, <1>6, <1>12
  <2>2. db # {}
    BY <1>2, <1>3, <2>1, EpochBounds
  <2>3. store.folded = db /\ LeadOf(db, store.lead)
    BY <2>2, Zenon DEF IInv, PcOk, LeadOk
  <2>4. PICK l \in store.lead : l.epoch = e
    BY <1>2, <2>1, <2>3, Zenon DEF LeadOf
  <2>5. l.mark = Before(db, e - 1) /\ l.source = Tip(Before(db, e - 1))
    BY <2>3, <2>4, Zenon DEF LeadOf
  <2>6. l \in Promotable(store, e)
    BY <2>4, Zenon DEF Promotable
  <2>7. wal[i].view
          = [epoch |-> e, source |-> l.source, mark |-> l.mark, nonce |-> Nonce(e)]
    BY <1>9, <1>10, <1>12, <2>5, Zenon DEF ExactView
  <2>8. wal[i].view \in BoundView(e)
    BY <1>12, <2>6, <2>7, Zenon DEF BoundView
  <2> QED
    BY <1>1, <1>2, <1>8, <2>8, Zenon
<1> QED
  BY <1>11, <1>12, Zenon

\* A restart rebuilds the view that the log's latest standing record holds.
LEMMA RecoverAuthorityKeeps ==
    ASSUME IInv, RecoverAuthority
    PROVE  IInv'
<1>0. /\ pc = "recover" /\ db \subseteq Blocks /\ wal \in Seq(Records) /\ EpochAt(db) \in Nat
      /\ authority = SeedView /\ UNCHANGED <<db, store, cp, wal, memo, warm, arg, spliced>>
      /\ authority \in Views
  BY EpochBounds, Zenon DEF IInv, RecoverAuthority, PcOk, TypeOK, ChainOk, Linked
<1>1. RecordsOk' /\ ActiveRecords' = ActiveRecords
  BY <1>0, RecordsStay DEF IInv
<1>2. ChainOk' /\ StoreOk(store, db)' /\ (~spliced => LeadOk(store) /\ memo = {})'
  BY <1>0 DEF IInv, ChainOk
<1>3. CASE ActiveRecords = {} /\ pc' = "sync" /\ UNCHANGED <<authority, fault>>
  <2>1. EpochAt(db) = 0
    BY <1>0, <1>3 DEF IInv, RecordsOk
  <2>2. Before(db, 0) = {}
    <3>1. ASSUME NEW b \in db PROVE ~(EpochOf(Slot[b]) < 0)
      BY <1>0, EpochBounds
    <3> QED
      BY <3>1 DEF Before
  <2>3. InForce'
    BY <1>0, <1>1, <1>3, <2>1, <2>2, Zenon DEF InForce, SeedView
  <2>4. PcOk'
    BY <1>3, <2>3 DEF PcOk, Passing
  <2>5. CheckpointOk' /\ TypeOK' /\ FaultOk'
    BY <1>0, <1>3, Zenon DEF IInv, CheckpointOk, TypeOK, FaultOk, RecoveryAdmitted,
                      NoMismatch, Passing
  <2> QED
    BY <1>1, <1>2, <2>4, <2>5, Zenon DEF IInv
<1>4. CASE \E i \in SelectedRecord :
            LET r == wal[i] IN
            \/ /\ r.epoch > EpochAt(db)
               /\ pc' = "halted" /\ fault' = "ActivationAboveDurableTip"
               /\ UNCHANGED authority
            \/ /\ r.epoch <= EpochAt(db)
               /\ r.epoch # EpochAt(db) \/ r.view \notin BoundView(r.epoch)
               /\ pc' = "halted" /\ fault' = "EpochViewPostPromotionMismatch"
               /\ UNCHANGED authority
            \/ /\ r.epoch = EpochAt(db) /\ r.view \in BoundView(r.epoch)
               /\ authority' = r.view
               /\ pc' = "sync"
               /\ UNCHANGED fault
  <2>1. PICK i \in SelectedRecord :
            \/ /\ wal[i].epoch > EpochAt(db)
               /\ pc' = "halted" /\ fault' = "ActivationAboveDurableTip"
               /\ UNCHANGED authority
            \/ /\ wal[i].epoch <= EpochAt(db)
               /\ wal[i].epoch # EpochAt(db) \/ wal[i].view \notin BoundView(wal[i].epoch)
               /\ pc' = "halted" /\ fault' = "EpochViewPostPromotionMismatch"
               /\ UNCHANGED authority
            \/ /\ wal[i].epoch = EpochAt(db) /\ wal[i].view \in BoundView(wal[i].epoch)
               /\ authority' = wal[i].view
               /\ pc' = "sync"
               /\ UNCHANGED fault
    BY <1>4, Zenon
  <2>2. /\ i \in ActiveRecords /\ \A j \in ActiveRecords : wal[j].epoch <= wal[i].epoch
        /\ wal[i].epoch \in Nat /\ wal[i].view \in Views
    BY <1>0, StandingRecord DEF SelectedRecord
  <2>3. CASE pc' = "halted" /\ fault' = "ActivationAboveDurableTip" /\ UNCHANGED authority
    <3>1. PcOk'
      BY <2>3, Zenon DEF PcOk, Passing
    <3>2. CheckpointOk' /\ TypeOK' /\ FaultOk'
      BY <1>0, <2>3, Zenon DEF IInv, CheckpointOk, TypeOK, FaultOk, RecoveryAdmitted,
                        NoMismatch, Passing
    <3> QED
      BY <1>1, <1>2, <3>1, <3>2, Zenon DEF IInv
  <2>4. CASE /\ wal[i].epoch <= EpochAt(db)
             /\ wal[i].epoch # EpochAt(db) \/ wal[i].view \notin BoundView(wal[i].epoch)
             /\ pc' = "halted" /\ fault' = "EpochViewPostPromotionMismatch"
             /\ UNCHANGED authority
    <3>1. wal[i].epoch # EpochAt(db) + 1
      BY <1>0, <2>2, <2>4
    <3>2. spliced
      BY <1>0, <2>4, <3>1, SelectedView, Zenon
    <3>3. PcOk'
      BY <2>4, Zenon DEF PcOk, Passing
    <3>4. CheckpointOk' /\ TypeOK' /\ FaultOk'
      BY <1>0, <2>4, <3>2, Zenon DEF IInv, CheckpointOk, TypeOK, FaultOk, RecoveryAdmitted,
                              NoMismatch, Passing
    <3> QED
      BY <1>1, <1>2, <3>3, <3>4 DEF IInv
  <2>5. CASE /\ wal[i].epoch = EpochAt(db) /\ wal[i].view \in BoundView(wal[i].epoch)
             /\ authority' = wal[i].view /\ pc' = "sync" /\ UNCHANGED fault
    <3>1. wal[i].view.epoch = EpochAt(db) /\ wal[i].view.nonce = Before(db, EpochAt(db))
      BY <2>5 DEF BoundView, Nonce, Before
    <3>2. InForce'
      BY <1>0, <1>1, <2>2, <2>5, <3>1, Zenon DEF InForce
    <3>3. PcOk'
      BY <2>5, <3>2, Zenon DEF PcOk, Passing
    <3>4. CheckpointOk' /\ TypeOK' /\ FaultOk'
      BY <1>0, <2>2, <2>5, Zenon DEF IInv, CheckpointOk, TypeOK, FaultOk, RecoveryAdmitted,
                              NoMismatch, Passing
    <3> QED
      BY <1>1, <1>2, <3>3, <3>4 DEF IInv
  <2> QED
    BY <2>1, <2>3, <2>4, <2>5, Zenon
<1> QED
  BY <1>3, <1>4, Zenon DEF RecoverAuthority

\* A stop leaves what is durable.
LEMMA CrashKeeps ==
    ASSUME IInv, Crash
    PROVE  IInv'
<1>0. /\ UNCHANGED <<db, store, cp, wal, spliced>> /\ authority' = SeedView /\ memo' = {}
      /\ warm' = TRUE /\ pc' = "coadvance" /\ fault' = "none"
  BY DEF Crash
<1>1. RecordsOk'
  BY <1>0, RecordsStay DEF IInv
<1>2. SeedView \in Views
  BY Zenon DEF SeedView, Views
<1>3. PcOk'
  BY <1>0, Zenon DEF PcOk, Passing
<1>4. TypeOK'
  BY <1>0, <1>2 DEF IInv, TypeOK
<1>5. FaultOk' /\ CheckpointOk' /\ ChainOk'
  BY <1>0 DEF IInv, FaultOk, RecoveryAdmitted, NoMismatch, CheckpointOk, Passing, ChainOk
<1> QED
  BY <1>0, <1>1, <1>3, <1>4, <1>5 DEF IInv

-----------------------------------------------------------------------------
(* The theorems.                                                             *)

\* Every step keeps the invariant.
LEMMA StepOk == IInv /\ [Next]_vars => IInv'
<1> SUFFICES ASSUME IInv, [Next]_vars PROVE IInv'
  OBVIOUS
<1>1. ASSUME NEW b \in Blocks, AdmitBlock(b) PROVE IInv'
  BY <1>1, AdmitBlockKeeps
<1>2. ASSUME NEW b \in Blocks, PrepareAuthority(b) PROVE IInv'
  BY <1>2, PrepareAuthorityKeeps
<1>3. ASSUME NEW b \in Blocks, RollBack(b) PROVE IInv'
  BY <1>3, RollBackKeeps
<1>4. CASE PumpFirstBlock
  BY <1>4, PumpFirstBlockKeeps
<1>5. CASE CommitRollBack
  BY <1>5, CommitRollBackKeeps
<1>6. CASE Recertify
  BY <1>6, RecertifyKeeps
<1>7. CASE EndPass
  BY <1>7, EndPassKeeps
<1>8. CASE CoadvanceStep
  BY <1>8, StartCoadvanceKeeps, RecoverAdmitKeeps, CatchUpKeeps, PositionCheckpointKeeps,
     FoldBlockKeeps, CrossBoundaryKeeps, ReachedTipKeeps, CheckpointToTipKeeps,
     RecoverAuthorityKeeps, Zenon DEF CoadvanceStep
<1>9. CASE Crash
  BY <1>9, CrashKeeps
<1>10. CASE UNCHANGED vars
  <2>1. RecordsOk' /\ ActiveRecords' = ActiveRecords
    BY <1>10, RecordsStay, Zenon DEF vars, IInv
  <2>2. PcOk'
    BY <1>10, <2>1, Zenon DEF vars, IInv, PcOk, InForce
  <2>3. TypeOK' /\ ChainOk' /\ CheckpointOk' /\ FaultOk'
    BY <1>10 DEF vars, IInv, TypeOK, ChainOk, CheckpointOk, FaultOk, RecoveryAdmitted,
                 NoMismatch
  <2> QED
    BY <1>10, <2>1, <2>2, <2>3 DEF vars, IInv
<1> QED
  BY <1>1, <1>2, <1>3, <1>4, <1>5, <1>6, <1>7, <1>8, <1>9, <1>10 DEF Next

\* The invariant holds of every behaviour.
LEMMA Inductive == Spec => []IInv
  BY InitOk, StepOk, PTL DEF Spec

\* CertifiedOnChain: at every commit, a certified accumulator and its rewind
\* points are folds of exactly the stored chain.  An anchor and a chain that
\* carries its block agree on everything below (OnChainIsPrefix), and the
\* pre-clear of accumulator_admit_and_clear_for_rollback removes the anchor
\* before the chain it stands on is trimmed.
THEOREM CertifiedFoldsOnChain == Spec => []CertifiedOnChain
<1>1. IInv => CertifiedOnChain
  <2> SUFFICES ASSUME IInv, store.certified
               PROVE  /\ store.folded = Upto(db, LastSlot(store.folded))
                      /\ \A p \in Rewinds(store) : p.folded = Upto(db, LastSlot(p.folded))
    BY DEF CertifiedOnChain, Rewinds
  <2>1. Linked(db) /\ StoreOk(store, db)
    BY Zenon DEF IInv, ChainOk
  <2>2. store.folded = Upto(db, LastSlot(store.folded))
    BY <2>1, StoreOnChain, Zenon
  <2>3. ASSUME NEW p \in Rewinds(store) PROVE p.folded = Upto(db, LastSlot(p.folded))
    <3>1. Linked(p.folded) /\ OnChain(p.folded, db)
      BY <2>1, Zenon DEF StoreOk, Shares
    <3> QED
      BY <2>1, <3>1, OnChainIsPrefix, Zenon
  <2> QED
    BY <2>2, <2>3
<1> QED
  BY <1>1, Inductive, PTL

\* RecoveryAdmitted: accumulator_recover_admit never takes its fail-closed arm.
THEOREM RecoveryAlwaysAdmits == Spec => []RecoveryAdmitted
<1>1. IInv => RecoveryAdmitted
  BY Zenon DEF IInv, FaultOk
<1> QED
  BY <1>1, Inductive, PTL

\* LeadershipFaithful: on passes that began with the checkpoint on the chain,
\* the leadership frozen by cross_accumulator_over_boundary_block is that of
\* the stored chain, for every epoch up to the one after the anchor's.
THEOREM FrozenLeadershipIsTheChains == Spec => []LeadershipFaithful
<1>1. IInv => LeadershipFaithful
  <2> SUFFICES ASSUME IInv, store.certified, ~spliced
               PROVE  /\ {l.epoch : l \in store.lead} = 2..EpochAt(store.folded) + 1
                      /\ \A l \in store.lead :
                            LET lineage == {b \in db : EpochOf(Slot[b]) + 2 <= l.epoch}
                            IN  l.source = Tip(lineage) /\ l.mark = lineage
    BY DEF LeadershipFaithful
  <2> DEFINE F == store.folded
  <2>1. LeadOf(F, store.lead) /\ Shares(F, db) /\ db \subseteq Blocks /\ F \subseteq Blocks
    BY Zenon DEF IInv, LeadOk, StoreOk, ChainOk, Linked, Shares
  <2>2. EpochAt(F) \in Nat
    BY <2>1, EpochBounds, Zenon
  <2>3. ASSUME NEW l \in store.lead
        PROVE  Before(F, l.epoch - 1) = {b \in db : EpochOf(Slot[b]) + 2 <= l.epoch}
    <3>1. l.epoch \in 2..EpochAt(F) + 1
      BY <2>1, Zenon DEF LeadOf
    <3>2. \A b \in db \cup F : EpochOf(Slot[b]) \in Nat
      BY <2>1, EpochBounds
    <3>3. \A b \in db \cup F : EpochOf(Slot[b]) < l.epoch - 1
                                 => EpochOf(Slot[b]) < EpochAt(F)
      BY <2>2, <3>1, <3>2
    <3>4. Before(F, l.epoch - 1) = Before(db, l.epoch - 1)
      BY <2>1, <3>3, Zenon DEF Shares, Before
    <3>5. \A b \in db : EpochOf(Slot[b]) < l.epoch - 1 <=> EpochOf(Slot[b]) + 2 <= l.epoch
      BY <3>1, <3>2
    <3> QED
      BY <3>4, <3>5, Zenon DEF Before
  <2> QED
    BY <2>1, <2>3, Zenon DEF LeadOf
<1> QED
  BY <1>1, Inductive, PTL

\* CheckpointOnChain: a pass that begins with the reduced checkpoint on the
\* chain keeps it there through every rewind, catch-up and advance.
THEOREM CheckpointStaysOnChain == Spec => []CheckpointOnChain
<1>1. IInv => CheckpointOnChain
  BY Zenon DEF IInv, CheckpointOk, CheckpointOnChain, Passing
<1> QED
  BY <1>1, Inductive, PTL

\* AuthorityAtTip: whatever rollbacks and restarts came before, headers are
\* judged by the authority of the tip's epoch with the nonce of the chain
\* (prepare_authority_for_candidate_slot, maybe_recover_promoted_authority).
THEOREM AuthorityFollowsTip == Spec => []AuthorityAtTip
<1>1. IInv => AuthorityAtTip
  BY Zenon DEF IInv, PcOk, InForce, AuthorityAtTip, Nonce, Before
<1> QED
  BY <1>1, Inductive, PTL

\* RecoversExactView: whenever a restart reaches maybe_recover_promoted_authority,
\* its stores give the view of the record it selects, which is for the epoch of the
\* tip (and then it is published) or for the next one (and then it is refused);
\* a node that runs has a record of the next epoch only between the promotion and
\* the store of its block; and the walk of advance_accumulator_over_chaindb does
\* not halt.
THEOREM RestartRebuildsView == Spec => []RecoversExactView
<1>1. ASSUME IInv, ~spliced, pc = "recover", NEW i \in SelectedRecord
      PROVE  /\ wal[i].epoch \in {EpochAt(db), EpochAt(db) + 1}
             /\ wal[i].view \in BoundView(wal[i].epoch)
  BY <1>1, SelectedView, Zenon
<1>2. ASSUME IInv, pc \in {"sync", "trim", "recertify"} \/ (~warm /\ pc \notin {"pump", "halted"})
      PROVE  \A i \in ActiveRecords : wal[i].epoch <= EpochAt(db)
  <2>1. pc # "recover" \/ warm
    BY <1>2, Zenon DEF IInv, PcOk
  <2>2. InForce
    BY <1>2, <2>1 DEF IInv, PcOk, TypeOK
  <2> QED
    BY <2>2, Zenon DEF InForce
<1>3. IInv => RecoversExactView
  BY <1>1, <1>2, Zenon DEF IInv, FaultOk, NoMismatch, RecoversExactView
<1> QED
  BY <1>3, Inductive, PTL

\* CaughtUp: a pass of advance_ledger_state_to_durable_tip_memo that is through
\* leaves the accumulator certified at the tip, and the stored chain has a
\* block of every epoch.
THEOREM PassReachesTip == Spec => []CaughtUp
<1>1. IInv => CaughtUp
  <2> SUFFICES ASSUME IInv, pc \in {"caughtup", "recover"}, ~spliced, db # {}
               PROVE  /\ store.certified /\ store.folded = db
                      /\ \A e \in 0..EpochAt(db) : \E b \in db : EpochOf(Slot[b]) = e
    BY Zenon DEF CaughtUp
  <2>1. store.certified /\ store.folded = db
    BY Zenon DEF IInv, PcOk
  <2>2. \A e \in 0..EpochAt(db) : \E b \in db : EpochOf(Slot[b]) = e
    BY NoEpochMissing, Zenon DEF IInv, ChainOk
  <2> QED
    BY <2>1, <2>2, Zenon
<1> QED
  BY <1>1, Inductive, PTL

=============================================================================
