------------------------------- MODULE CodexFS -------------------------------
(***************************************************************************)
(* CodexFS (components/CodexFS/src/codexfs.c) with its two clients.  The   *)
(* component has two threads: the control thread executes run(), which     *)
(* clears the store, and the interface thread serves fs_write and          *)
(* fs_verify, one call at a time.  WriteClient makes its calls and ignores *)
(* their results; ReadClient polls the published count and then asks for a *)
(* verification.  Tampering is a byte of the store changed from outside.   *)
(*                                                                         *)
(* A byte is the set of its one-bits, so that XOR is symmetric difference. *)
(* The data of a block is the XOR of its bytes, all the checksum sees.     *)
(***************************************************************************)
EXTENDS Integers, Sequences

CONSTANTS
  Bits,         \* the bits of a byte
  MaxBlocks,    \* MB, the blocks the store holds (63)
  Documents,    \* what WriteClient writes ("G", "M", "F")
  Wanted,       \* the count ReadClient waits for (3)
  MaxTampers    \* bound: bytes changed from outside

Byte == SUBSET Bits

ASSUME CodexAssumption ==
  /\ MaxBlocks \in Nat \ {0}
  /\ Documents \in Seq(Byte)
  /\ Wanted \in Nat \ {0}
  /\ MaxTampers \in Nat

VARIABLES
  store,      \* the block array in the dataport
  published,  \* *rf, the last word of the dataport
  startPc,    \* what run() does next
  st,         \* the static pointers, 0 until run() has set them
  rf,
  bc,         \* static: blocks in the store
  servPc,     \* what the interface thread does next
  vi,         \* local i of fs_verify
  sent,       \* calls of fs_write that have returned
  readPc,     \* what ReadClient does next
  tampers     \* bytes changed so far

startVars == <<startPc, st, rf>>
vars == <<store, published, startVars, bc, servPc, vi, sent, readPc, tampers>>

Slots == 0 .. (MaxBlocks - 1)
Block == [ph : Byte, data : Byte, h : Byte]
ZeroBlock == [ph |-> {}, data |-> {}, h |-> {}]

Xor(x, y) == (x \ y) \cup (y \ x)

\* cs: the checksum of a block over all its bytes but the last.
cs(b) == Xor(b.ph, b.data)

\* The link of block i: the checksum stored in its predecessor.
Link(i) == IF i = 0 THEN {} ELSE store[i - 1].h

Init ==
  /\ store = [i \in Slots |-> ZeroBlock]
  /\ published = 0
  /\ startPc = "setStore"
  /\ st = 0 /\ rf = 0
  /\ bc = 0
  /\ servPc = "idle"
  /\ vi = 0
  /\ sent = 0
  /\ readPc = "poll"
  /\ tampers = 0

TypeOK ==
  /\ store \in [Slots -> Block]
  /\ published \in 0 .. MaxBlocks
  /\ startPc \in {"setStore", "clearStore", "setFlag", "clearFlag",
                  "lateFlag", "lateClear", "started"}
  /\ st \in {0, 1} /\ rf \in {0, 1}
  /\ bc \in 0 .. MaxBlocks
  /\ servPc \in {"idle", "fill", "publish", "verify"}
  /\ vi \in 0 .. MaxBlocks
  /\ sent \in 0 .. Len(Documents)
  /\ readPc \in {"poll", "call", "ok", "err"}
  /\ tampers \in 0 .. MaxTampers

------------------------------------------------------------------------------
\* run()

SetStore ==
  /\ startPc = "setStore"
  /\ st' = 1
  /\ startPc' = "clearStore"
  /\ UNCHANGED <<store, published, rf>>

\* memset(st,0,SS), which covers the published count.  C lets the compiler move the
\* store to rf over it, rf being static and memset known to it; that the build
\* keeps the store behind the memset is assumed.
ClearStore ==
  /\ startPc = "clearStore"
  /\ store' = [i \in Slots |-> ZeroBlock]
  /\ published' = 0
  /\ startPc' \in {"setFlag", "lateFlag"}
  /\ UNCHANGED <<st, rf>>

\* rf=...; *rf=0, where rf itself is not volatile: the compiler may emit the two
\* stores in either order.
SetFlag ==
  /\ startPc \in {"setFlag", "lateClear"}
  /\ rf' = 1
  /\ startPc' = IF startPc = "setFlag" THEN "clearFlag" ELSE "started"
  /\ UNCHANGED <<store, published, st>>

ClearFlag ==
  /\ startPc \in {"clearFlag", "lateFlag"}
  /\ published' = 0
  /\ startPc' = IF startPc = "clearFlag" THEN "started" ELSE "lateClear"
  /\ UNCHANGED <<store, st, rf>>

ControlRuns ==
  /\ SetStore \/ ClearStore \/ SetFlag \/ ClearFlag
  /\ UNCHANGED <<bc, servPc, vi, sent, readPc, tampers>>

------------------------------------------------------------------------------
\* The interface thread, on behalf of WriteClient

Writing == servPc = "idle" /\ sent < Len(Documents)

\* Mutant of Ready: fs_write does not wait for rf.
ReadyEarly == st # 0 /\ bc < MaxBlocks

\* Mutant of Ready: one block too many is accepted.
ReadyFull == st # 0 /\ rf # 0 /\ bc <= MaxBlocks

\* fs_write accepts a block once run() has set both pointers, while one is free.
Ready == st # 0 /\ rf # 0 /\ bc < MaxBlocks

\* fs_write returns -1, which WriteClient does not look at.
RefuseWrite ==
  /\ Writing
  /\ ~Ready
  /\ sent' = sent + 1
  /\ UNCHANGED <<store, published, bc, servPc, vi, readPc>>

AcceptWrite ==
  /\ Writing
  /\ Ready
  /\ servPc' = "fill"
  /\ UNCHANGED <<store, published, bc, vi, sent, readPc>>

\* The new block is chained to the one before it; bc++.
FillBlock ==
  /\ servPc = "fill"
  /\ LET b == [ph |-> Link(bc), data |-> Documents[sent + 1], h |-> {}]
     IN  store' = [store EXCEPT ![bc] = [b EXCEPT !.h = cs(b)]]
  /\ bc' = bc + 1
  /\ servPc' = "publish"
  /\ UNCHANGED <<published, vi, sent, readPc>>

\* Mutant of PublishBlock: the count is published one too high.
PublishAhead ==
  /\ servPc = "publish"
  /\ published' = bc + 1
  /\ sent' = sent + 1
  /\ servPc' = "idle"
  /\ UNCHANGED <<store, bc, vi, readPc>>

\* Mutant of PublishBlock: the index of the block is published, not the count.
PublishIndex ==
  /\ servPc = "publish"
  /\ published' = bc - 1
  /\ sent' = sent + 1
  /\ servPc' = "idle"
  /\ UNCHANGED <<store, bc, vi, readPc>>

\* *rf=bc, and the call returns.
PublishBlock ==
  /\ servPc = "publish"
  /\ published' = bc
  /\ sent' = sent + 1
  /\ servPc' = "idle"
  /\ UNCHANGED <<store, bc, vi, readPc>>

------------------------------------------------------------------------------
\* ReadClient, and the interface thread on its behalf

\* while(*rf<3)
SeeCount ==
  /\ readPc = "poll"
  /\ published >= Wanted
  /\ readPc' = "call"
  /\ UNCHANGED <<store, published, bc, servPc, vi, sent>>

BeginVerify ==
  /\ readPc = "call"
  /\ servPc = "idle"
  /\ IF st = 0
       THEN readPc' = "err" /\ UNCHANGED <<servPc, vi>>
       ELSE servPc' = "verify" /\ vi' = 0 /\ UNCHANGED readPc
  /\ UNCHANGED <<store, published, bc, sent>>

\* Mutant of Intact: only the links are compared.
IntactLinks(i) == store[i].ph = Link(i)

Intact(i) == store[i].ph = Link(i) /\ store[i].h = cs(store[i])

\* One round of the loop of fs_verify, or its end.
VerifyBlock ==
  /\ servPc = "verify"
  /\ IF vi < bc /\ Intact(vi)
       THEN vi' = vi + 1 /\ UNCHANGED <<servPc, readPc>>
       ELSE /\ servPc' = "idle"
            /\ readPc' = IF vi < bc THEN "err" ELSE "ok"
            /\ UNCHANGED vi
  /\ UNCHANGED <<store, published, bc, sent>>

InterfaceRuns ==
  /\ RefuseWrite \/ AcceptWrite \/ FillBlock \/ PublishBlock
     \/ BeginVerify \/ VerifyBlock
  /\ UNCHANGED <<startVars, tampers>>

ReaderRuns == SeeCount /\ UNCHANGED <<startVars, tampers>>

\* One byte of a counted block changes.
Tamper ==
  /\ tampers < MaxTampers
  /\ \E i \in 0 .. (bc - 1), v \in Byte :
       \/ v # store[i].ph /\ store' = [store EXCEPT ![i].ph = v]
       \/ v # store[i].data /\ store' = [store EXCEPT ![i].data = v]
       \/ v # store[i].h /\ store' = [store EXCEPT ![i].h = v]
  /\ tampers' = tampers + 1
  /\ UNCHANGED <<published, startVars, bc, servPc, vi, sent, readPc>>

Next == ControlRuns \/ InterfaceRuns \/ ReaderRuns \/ Tamper

Spec == Init /\ [][Next]_vars

\* The threads share one core under round robin.
FairSpec == Spec /\ WF_vars(ControlRuns) /\ WF_vars(InterfaceRuns) /\ WF_vars(ReaderRuns)

------------------------------------------------------------------------------

ChainIntact == \A i \in 0 .. (bc - 1) : Intact(i)

\* A counted block is never changed again except from outside: neither a later
\* write nor the clearing of the store by the other thread touches it
\* (codexfs.c lines 13 and 14).
AppendOnly ==
  [][\A i \in 0 .. (bc - 1) : store'[i] = store[i] \/ tampers' > tampers]_vars

\* A chain nobody has touched verifies, and one in which a single byte of a
\* counted block was changed never does again, whatever is written after it: the
\* later blocks are chained to the damage, not over it.
DamageShows ==
  /\ tampers = 0 => ChainIntact
  /\ tampers = 1 => ~ChainIntact

\* ReadClient's verdict is about everything it waited for: "READER: ok" covers
\* at least Wanted blocks, and "READER: err" is never a false alarm.
VerdictIsSound ==
  /\ readPc = "ok" => bc >= Wanted
  /\ readPc = "err" => tampers > 0

\* A writer that makes its first call after run() has ended is read in the end.
LateWriterIsRead ==
  (startPc = "started" /\ sent = 0 /\ servPc = "idle") ~> readPc \in {"ok", "err"}

\* real-architecture.md:133: "WriteClient writes 3 blocks; ReadClient verifies chain."
\* False: a write refused during start-up is lost, and one counted before run()
\* clears the count a last time may be hidden for ever.
ReaderFinishes == <>(readPc \in {"ok", "err"})

==============================================================================
