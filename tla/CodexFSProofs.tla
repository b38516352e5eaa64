---------------------------- MODULE CodexFSProofs ----------------------------
(***************************************************************************)
(* Proofs about CodexFS for a store of any size, any records and bytes of  *)
(* any width.                                                              *)
(***************************************************************************)
EXTENDS CodexFS, TLAPS

\* Until run() has set rf, after the store has been cleared, nothing is accepted.
StartInv ==
  /\ startPc \in {"setStore", "clearStore", "setFlag", "lateFlag", "lateClear"} => rf = 0
  /\ startPc = "setStore" <=> st = 0
  /\ rf = 0 => bc = 0 /\ servPc \notin {"fill", "publish"}

\* Where the interface thread is bounds its counters.
ServeInv ==
  /\ servPc = "fill" => bc < MaxBlocks
  /\ servPc = "publish" => bc > 0
  /\ servPc \in {"fill", "publish"} => sent < Len(Documents)
  /\ servPc = "verify" => vi <= bc /\ readPc = "call"
  /\ published <= bc

VerdictInv ==
  /\ readPc # "poll" => bc >= Wanted
  /\ readPc = "err" => tampers > 0

Inv == TypeOK /\ StartInv /\ ServeInv /\ DamageShows /\ VerdictInv

LEMMA ConstantFacts ==
  /\ MaxBlocks \in Nat /\ MaxBlocks > 0
  /\ Documents \in Seq(Byte) /\ Len(Documents) \in Nat
  /\ Wanted \in Nat /\ Wanted > 0
  /\ MaxTampers \in Nat
BY CodexAssumption

LEMMA InitInv == Init => Inv
BY ConstantFacts DEF Init, Inv, TypeOK, StartInv, ServeInv, DamageShows, VerdictInv,
   ChainIntact, Slots, Block, ZeroBlock, Byte

\* Changing one byte of the data changes the checksum.
LEMMA XorInjective ==
  ASSUME NEW p, NEW x, NEW y, Xor(p, x) = Xor(p, y)
  PROVE  x = y
BY DEF Xor

\* run() touches the store only while it is empty.
LEMMA ControlStep ==
  ASSUME Inv, ControlRuns
  PROVE  Inv'
<1>1. CASE SetStore
  BY <1>1 DEF SetStore, ControlRuns, Inv, TypeOK, StartInv, ServeInv, DamageShows,
     VerdictInv, ChainIntact, Intact, Link
<1>2. CASE ClearStore
  <2>1. bc = 0 /\ tampers' = tampers /\ bc' = bc
    BY <1>2 DEF ClearStore, ControlRuns, Inv, StartInv
  <2>2. ChainIntact /\ ChainIntact'
    BY <2>1 DEF ChainIntact
  <2>3. store' \in [Slots -> Block]
    BY <1>2 DEF ClearStore, Block, ZeroBlock, Byte
  <2> QED
    BY <1>2, <2>1, <2>2, <2>3, ConstantFacts DEF ClearStore, ControlRuns, Inv, TypeOK,
       StartInv, ServeInv, DamageShows, VerdictInv
<1>3. CASE SetFlag
  BY <1>3 DEF SetFlag, ControlRuns, Inv, TypeOK, StartInv, ServeInv, DamageShows,
     VerdictInv, ChainIntact, Intact, Link
<1>4. CASE ClearFlag
  BY <1>4, ConstantFacts DEF ClearFlag, ControlRuns, Inv, TypeOK, StartInv, ServeInv,
     DamageShows, VerdictInv, ChainIntact, Intact, Link
<1> QED
  BY <1>1, <1>2, <1>3, <1>4 DEF ControlRuns

\* Every link is a byte.
LEMMA LinkIsByte ==
  ASSUME Inv, NEW i \in 0 .. bc
  PROVE  Link(i) \in Byte
<1>1. CASE i = 0
  BY <1>1 DEF Link, Byte
<1>2. CASE i # 0
  <2>1. i - 1 \in Slots /\ store \in [Slots -> Block]
    BY <1>2, ConstantFacts DEF Inv, TypeOK, Slots
  <2>2. store[i - 1] \in Block
    BY <2>1
  <2>3. store[i - 1].h \in Byte
    BY <2>2 DEF Block
  <2> QED
    BY <1>2, <2>3 DEF Link
<1> QED
  BY <1>1, <1>2

\* Whether a block is intact depends on the block and its predecessor alone.
LEMMA IntactFrame ==
  ASSUME NEW i \in Nat,
         store'[i] = store[i],
         i # 0 => store'[i - 1] = store[i - 1]
  PROVE  Intact(i)' <=> Intact(i)
BY DEF Intact, Link

\* A new block is intact and leaves the older ones as they were.
LEMMA FillKeepsChain ==
  ASSUME Inv, FillBlock
  PROVE  /\ store' \in [Slots -> Block]
         /\ bc' = bc + 1 /\ bc \in Slots
         /\ \A i \in 0 .. (bc - 1) : store'[i] = store[i] /\ (Intact(i)' <=> Intact(i))
         /\ \A i \in Slots : i = bc => Intact(i)'
<1> DEFINE d == Documents[sent + 1]
           n == [ph |-> Link(bc), data |-> d, h |-> Xor(Link(bc), d)]
<1>1. /\ bc' = bc + 1 /\ bc \in Slots
      /\ store \in [Slots -> Block]
      /\ sent + 1 \in 1 .. Len(Documents)
  BY ConstantFacts DEF FillBlock, Inv, TypeOK, ServeInv, Slots
<1>2. store' = [store EXCEPT ![bc] = n]
  <2> DEFINE b == [ph |-> Link(bc), data |-> d, h |-> {}]
  <2>1. store' = [store EXCEPT ![bc] = [b EXCEPT !.h = cs(b)]]
    BY DEF FillBlock
  <2>2. cs(b) = Xor(Link(bc), d)
    BY DEF cs
  <2>3. \A c : [b EXCEPT !.h = c] = [ph |-> Link(bc), data |-> d, h |-> c]
    OBVIOUS
  <2> QED
    BY <2>1, <2>2, <2>3
<1>3. d \in Byte
  BY <1>1, ConstantFacts
<1>4. n \in Block
  <2>1. Link(bc) \in Byte
    BY <1>1, LinkIsByte DEF Slots
  <2>2. Xor(Link(bc), d) \in Byte
    BY <1>3, <2>1 DEF Xor, Byte
  <2> QED
    BY <1>3, <2>1, <2>2 DEF Block
<1>5. store' \in [Slots -> Block]
  BY <1>1, <1>2, <1>4
<1>6. \A i \in 0 .. (bc - 1) : store'[i] = store[i] /\ (Intact(i)' <=> Intact(i))
  <2> SUFFICES ASSUME NEW i \in 0 .. (bc - 1)
               PROVE  store'[i] = store[i] /\ (Intact(i)' <=> Intact(i))
    OBVIOUS
  <2>1. i \in Slots /\ i \in Nat /\ i # bc /\ i - 1 # bc /\ (i # 0 => i - 1 \in Slots)
    BY <1>1, ConstantFacts DEF Slots
  <2>2. store'[i] = store[i] /\ (i # 0 => store'[i - 1] = store[i - 1])
    BY <1>1, <1>2, <2>1
  <2> QED
    BY <2>1, <2>2, IntactFrame
<1>7. ASSUME NEW i \in Slots, i = bc
      PROVE  Intact(i)'
  <2>1. i \in Nat /\ i - 1 # bc /\ (i # 0 => i - 1 \in Slots)
    BY <1>7, ConstantFacts DEF Slots
  <2>2. store'[i] = n /\ (i # 0 => store'[i - 1] = store[i - 1])
    BY <1>1, <1>2, <1>7, <2>1
  <2>3. Link(i)' = Link(bc)
    BY <1>7, <2>2 DEF Link
  <2> QED
    BY <2>2, <2>3 DEF Intact, cs
<1> QED
  BY <1>1, <1>5, <1>6, <1>7

\* The interface thread keeps the invariant.
LEMMA InterfaceStep ==
  ASSUME Inv, InterfaceRuns
  PROVE  Inv'
<1>1. CASE RefuseWrite
  BY <1>1, ConstantFacts DEF RefuseWrite, Writing, InterfaceRuns, startVars, Inv, TypeOK,
     StartInv, ServeInv, DamageShows, VerdictInv, ChainIntact, Intact, Link
<1>2. CASE AcceptWrite
  BY <1>2, ConstantFacts DEF AcceptWrite, Writing, Ready, InterfaceRuns, startVars, Inv,
     TypeOK, StartInv, ServeInv, DamageShows, VerdictInv, ChainIntact, Intact, Link
<1>3. CASE FillBlock
  <2>1. /\ store' \in [Slots -> Block]
        /\ bc' = bc + 1 /\ bc \in Slots
        /\ \A i \in 0 .. (bc - 1) : Intact(i)' <=> Intact(i)
        /\ \A i \in Slots : i = bc => Intact(i)'
    BY <1>3, FillKeepsChain
  <2>2. /\ servPc = "fill" /\ servPc' = "publish"
        /\ UNCHANGED <<startVars, published, vi, sent, readPc, tampers>>
    BY <1>3 DEF FillBlock, InterfaceRuns
  <2>3. ChainIntact' <=> ChainIntact
    <3>1. 0 .. (bc' - 1) = (0 .. (bc - 1)) \cup {bc}
      BY <2>1, ConstantFacts DEF Slots
    <3>2. ChainIntact' <=> \A i \in 0 .. (bc' - 1) : Intact(i)'
      BY DEF ChainIntact
    <3>3. ChainIntact <=> \A i \in 0 .. (bc - 1) : Intact(i)
      BY DEF ChainIntact
    <3> QED
      BY <2>1, <3>1, <3>2, <3>3
  <2>4. DamageShows'
    BY <2>2, <2>3 DEF Inv, DamageShows
  <2>5. TypeOK'
    BY <2>1, <2>2, ConstantFacts DEF Inv, TypeOK, startVars, Slots
  <2>6. StartInv'
    BY <2>2 DEF Inv, StartInv, startVars
  <2>7. ServeInv' /\ VerdictInv'
    BY <2>1, <2>2, ConstantFacts DEF Inv, TypeOK, ServeInv, VerdictInv, startVars
  <2> QED
    BY <2>4, <2>5, <2>6, <2>7 DEF Inv
<1>4. CASE PublishBlock
  BY <1>4, ConstantFacts DEF PublishBlock, InterfaceRuns, startVars, Inv, TypeOK,
     StartInv, ServeInv, DamageShows, VerdictInv, ChainIntact, Intact, Link
<1>5. CASE BeginVerify
  <2>1. st # 0
    BY <1>5, ConstantFacts DEF BeginVerify, Inv, TypeOK, StartInv, VerdictInv
  <2> QED
    BY <1>5, <2>1, ConstantFacts DEF BeginVerify, InterfaceRuns, startVars, Inv, TypeOK,
       StartInv, ServeInv, DamageShows, VerdictInv, ChainIntact, Intact, Link
<1>6. CASE VerifyBlock
  <2>1. vi \in Nat /\ vi <= bc /\ bc \in 0 .. MaxBlocks
    BY <1>6, ConstantFacts DEF VerifyBlock, Inv, TypeOK, ServeInv
  <2>2. DamageShows' /\ (vi < bc /\ ~Intact(vi) => tampers > 0)
    <3>1. ChainIntact' <=> ChainIntact
      BY <1>6 DEF VerifyBlock, ChainIntact, Intact, Link
    <3>2. vi < bc /\ ~Intact(vi) => ~ChainIntact
      BY <2>1, ConstantFacts DEF ChainIntact
    <3> QED
      BY <1>6, <3>1, <3>2, ConstantFacts DEF InterfaceRuns, Inv, TypeOK, DamageShows
  <2>3. TypeOK' /\ StartInv' /\ ServeInv' /\ VerdictInv'
    BY <1>6, <2>1, <2>2, ConstantFacts DEF VerifyBlock, InterfaceRuns, startVars, Inv,
       TypeOK, StartInv, ServeInv, VerdictInv
  <2> QED
    BY <2>2, <2>3 DEF Inv
<1> QED
  BY <1>1, <1>2, <1>3, <1>4, <1>5, <1>6 DEF InterfaceRuns

\* One changed byte breaks a chain that was intact: a changed link no longer
\* matches the predecessor, changed data or a changed checksum no longer match
\* each other.
LEMMA TamperBreaksChain ==
  ASSUME Inv, Tamper
  PROVE  store' \in [Slots -> Block] /\ (tampers = 0 => ~ChainIntact')
<1>1. /\ bc \in 0 .. MaxBlocks /\ store \in [Slots -> Block]
      /\ bc' = bc
  BY DEF Tamper, Inv, TypeOK
<1>2. PICK i \in 0 .. (bc - 1), v \in Byte :
        \/ v # store[i].ph /\ store' = [store EXCEPT ![i].ph = v]
        \/ v # store[i].data /\ store' = [store EXCEPT ![i].data = v]
        \/ v # store[i].h /\ store' = [store EXCEPT ![i].h = v]
  BY DEF Tamper
<1>3. i \in Slots /\ i \in Nat /\ i - 1 # i /\ (i # 0 => i - 1 \in Slots)
  BY <1>1, <1>2, ConstantFacts DEF Slots
<1>4. store[i] \in Block
  BY <1>1, <1>3
<1>5. \/ v # store[i].ph /\ store'[i] = [store[i] EXCEPT !.ph = v]
      \/ v # store[i].data /\ store'[i] = [store[i] EXCEPT !.data = v]
      \/ v # store[i].h /\ store'[i] = [store[i] EXCEPT !.h = v]
  BY <1>1, <1>2, <1>3
<1>6. store'[i] \in Block /\ store' = [store EXCEPT ![i] = store'[i]]
  BY <1>1, <1>2, <1>3, <1>4 DEF Block
<1>7. store' \in [Slots -> Block]
  BY <1>1, <1>6
<1>8. ASSUME tampers = 0
      PROVE  ~ChainIntact'
  <2>1. Intact(i)
    BY <1>2, <1>8 DEF Inv, DamageShows, ChainIntact
  <2>2. Link(i)' = Link(i)
    BY <1>1, <1>3, <1>6 DEF Link
  <2>3. ~Intact(i)'
    <3>1. CASE v # store[i].ph /\ store'[i] = [store[i] EXCEPT !.ph = v]
      <4>1. store'[i].ph = v
        BY <1>4, <3>1 DEF Block
      <4> QED
        BY <2>1, <2>2, <3>1, <4>1 DEF Intact
    <3>2. CASE v # store[i].data /\ store'[i] = [store[i] EXCEPT !.data = v]
      <4>1. /\ store'[i].data = v
            /\ store'[i].ph = store[i].ph /\ store'[i].h = store[i].h
        BY <1>4, <3>2 DEF Block
      <4>2. Xor(store[i].ph, v) # Xor(store[i].ph, store[i].data)
        BY <3>2, XorInjective
      <4> QED
        BY <2>1, <4>1, <4>2 DEF Intact, cs
    <3>3. CASE v # store[i].h /\ store'[i] = [store[i] EXCEPT !.h = v]
      <4>1. /\ store'[i].h = v
            /\ store'[i].ph = store[i].ph /\ store'[i].data = store[i].data
        BY <1>4, <3>3 DEF Block
      <4> QED
        BY <2>1, <3>3, <4>1 DEF Intact, cs
    <3> QED
      BY <1>5, <3>1, <3>2, <3>3
  <2> QED
    BY <1>1, <1>2, <2>3 DEF ChainIntact
<1> QED
  BY <1>7, <1>8

\* Every step keeps the invariant.
LEMMA InvStep == Inv /\ [Next]_vars => Inv'
<1> SUFFICES ASSUME Inv, [Next]_vars
             PROVE  Inv'
  OBVIOUS
<1>1. CASE ControlRuns
  BY <1>1, ControlStep
<1>2. CASE InterfaceRuns
  BY <1>2, InterfaceStep
<1>3. CASE ReaderRuns
  BY <1>3, ConstantFacts DEF ReaderRuns, SeeCount, startVars, Inv, TypeOK, StartInv,
     ServeInv, DamageShows, VerdictInv, ChainIntact, Intact, Link
<1>4. CASE Tamper
  <2>1. store' \in [Slots -> Block] /\ (tampers = 0 => ~ChainIntact')
    BY <1>4, TamperBreaksChain
  <2>2. /\ tampers < MaxTampers /\ tampers' = tampers + 1
        /\ UNCHANGED <<published, startVars, bc, servPc, vi, sent, readPc>>
    BY <1>4 DEF Tamper
  <2> QED
    BY <2>1, <2>2, ConstantFacts DEF startVars, Inv, TypeOK, StartInv, ServeInv,
       DamageShows, VerdictInv
<1>5. CASE UNCHANGED vars
  BY <1>5 DEF vars, startVars, Inv, TypeOK, StartInv, ServeInv, DamageShows,
     VerdictInv, ChainIntact, Intact, Link
<1> QED
  BY <1>1, <1>2, <1>3, <1>4, <1>5 DEF Next

\* The inductive invariant holds in every behaviour.
THEOREM Invariance == Spec => []Inv
BY InitInv, InvStep, PTL DEF Spec

\* Type correctness, with the bounds of every counter of codexfs.c.
THEOREM TypeCorrect == Spec => []TypeOK
<1>1. Inv => TypeOK
  BY DEF Inv
<1> QED
  BY <1>1, Invariance, PTL

\* A single changed byte of a counted block is found by every later
\* verification, whatever has been written since (fs_verify, codexfs.c line 15).
THEOREM DamageIsFound == Spec => []DamageShows
<1>1. Inv => DamageShows
  BY DEF Inv
<1> QED
  BY <1>1, Invariance, PTL

\* "READER: ok" covers the records waited for, "READER: err" is no false alarm.
THEOREM VerdictsAreSound == Spec => []VerdictIsSound
<1>1. Inv => VerdictIsSound
  BY DEF Inv, VerdictInv, VerdictIsSound
<1> QED
  BY <1>1, Invariance, PTL

\* A counted block is changed by nobody but the tamperer: run() clears the store
\* only before the first block is counted (codexfs.c lines 13 and 14).
THEOREM CountedBlocksStay == Spec => AppendOnly
<1>1. ASSUME Inv, [Next]_vars, NEW i \in 0 .. (bc - 1)
      PROVE  store'[i] = store[i] \/ tampers' > tampers
  <2>1. CASE ControlRuns
    <3>1. startPc = "clearStore" => bc = 0
      BY <1>1 DEF Inv, StartInv
    <3> QED
      BY <2>1, <3>1, ConstantFacts DEF ControlRuns, SetStore, ClearStore, SetFlag,
         ClearFlag, Inv, TypeOK
  <2>2. CASE InterfaceRuns
    <3>1. CASE FillBlock
      BY <1>1, <3>1, FillKeepsChain
    <3> QED
      BY <2>2, <3>1 DEF InterfaceRuns, RefuseWrite, AcceptWrite, PublishBlock,
         BeginVerify, VerifyBlock
  <2>3. CASE ReaderRuns
    BY <2>3 DEF ReaderRuns, SeeCount
  <2>4. CASE Tamper
    BY <1>1, <2>4, ConstantFacts DEF Tamper, Inv, TypeOK
  <2>5. CASE UNCHANGED vars
    BY <2>5 DEF vars
  <2> QED
    BY <1>1, <2>1, <2>2, <2>3, <2>4, <2>5 DEF Next
<1>2. Inv /\ [Next]_vars
        => [\A i \in 0 .. (bc - 1) : store'[i] = store[i] \/ tampers' > tampers]_vars
  BY <1>1
<1> QED
  BY <1>2, Invariance, PTL DEF Spec, AppendOnly

==============================================================================
