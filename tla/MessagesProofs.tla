---------------------------- MODULE MessagesProofs ----------------------------
(***************************************************************************)
(* Proofs about Messages for a ring of any size and in every assembly: the *)
(* types, what Sentinel lets through, what MemClient sees of the page, and *)
(* that the ring is a queue as long as nothing collides in it.             *)
(***************************************************************************)
EXTENDS Messages, SequenceTheorems, TLAPS

ClientPc == {"absent", "call", "rpc", "wait", "done", "end"}
GatePc == {"absent", "idle", "forward", "block", "ask", "wait", "reply"}
Statements == {"absent", "call", "rpc", "wait", "done", "end", "idle", "forward", "block",
               "ask", "reply", "ok", "write", "wrote", "title", "page", "newline"}

\* Each thread keeps to the statements of its own program.
Programs ==
  /\ pc \in [Writers -> Statements]
  /\ pc["client"] \in ClientPc /\ pc["client_h"] \in GatePc
  /\ pc["public"] \in ClientPc /\ pc["public_h"] \in GatePc
  /\ pc["secret"] \in ClientPc /\ pc["secret_h"] \in {"absent", "idle", "block", "reply"}
  /\ pc["hello"] \in {"absent", "idle", "ok", "reply"}
  /\ pc["cortexmm"] \in {"absent", "write", "wrote", "end"}
  /\ pc["memclient"] \in {"absent", "title", "page", "newline", "end"}

\* Hello has worked for client c before anything is answered that was not blocked.
Answered(c, gate) ==
  /\ pc[gate] # "block"
  /\ pc[gate] = "reply" \/ pc[c] \in {"done", "end"} => c \in served

\* The label decides what a gate does, and Hello works for the gate that asks.
Verdicts ==
  /\ assembly \in Assemblies
  /\ served \subseteq {"client", "public"}
  /\ server \in {"client", "public", "nobody"}
  /\ pc["hello"] \in {"ok", "reply"} => server \in served /\ pc[Gate(server)] = "wait"
  /\ pc["secret"] # "absent" \/ pc["secret_h"] # "absent" => assembly = "sentinel_negtest"
  /\ Answered("client", "client_h") /\ Answered("public", "public_h")

Frames == [at : {"outside", "measure", "copy"}, x : 0 .. RingSize - 1,
           n : 0 .. Len(Page), i : 0 .. Len(Page)]

\* A thread copies no more than it has measured, and only MemClient measures.
Copies ==
  /\ written \in 0 .. 3
  /\ pc["cortexmm"] = "write" => written < 3
  /\ head \in 0 .. RingSize - 1 /\ tail \in 0 .. RingSize - 1
  /\ clean \in {0, 1}
  /\ frame \in [Writers -> Frames]
  /\ \A w \in Writers : frame[w].i <= frame[w].n
  /\ \A w \in Writers : frame[w].at # "outside" => pc[w] \in DOMAIN After
  /\ \A w \in Writers : frame[w].at = "measure" => pc[w] = "page" /\ frame[w].i = 0
  /\ frame["memclient"].at = "outside" => frame["memclient"] = Outside
  /\ assembly = "sentinel_negtest" => \A w \in Writers : frame[w].at = "outside"
  /\ pc["memclient"] = "page" => frame["memclient"].n <= written

LEMMA GateFacts ==
  /\ Gate("client") = "client_h" /\ Gate("public") = "public_h"
  /\ Gate("secret") = "secret_h"
  /\ Gates = {"client_h", "public_h", "secret_h"}
  /\ Writers = {"client", "public", "secret", "client_h", "public_h", "secret_h",
                "hello", "cortexmm", "memclient"}
<1>1. Gate("client") = "client_h" /\ Gate("public") = "public_h"
      /\ Gate("secret") = "secret_h"
  BY DEF Gate
<1>2. Gates = {"client_h", "public_h", "secret_h"}
  BY <1>1 DEF Gates, Clients
<1> QED
  BY <1>1, <1>2 DEF Writers, Clients

LEMMA ModBound == \A k \in Nat : (k + 1) % RingSize \in 0 .. RingSize - 1
  BY RingAssumption

LEMMA PageLen == Len(Page) = 3
  BY DEF Page

LEMMA AfterFacts ==
  /\ DOMAIN After = {"call", "done", "forward", "block", "ok", "wrote", "title", "page",
                     "newline"}
  /\ After["call"] = "rpc" /\ After["done"] = "end" /\ After["forward"] = "ask"
  /\ After["block"] = "reply" /\ After["ok"] = "reply" /\ After["wrote"] = "end"
  /\ After["title"] = "page" /\ After["page"] = "newline" /\ After["newline"] = "end"
  BY DEF After

TalkInv == Programs /\ Verdicts

LEMMA InitTalk == Init => TalkInv
<1> SUFFICES ASSUME Init PROVE TalkInv
    OBVIOUS
<1>1. \A w \in Writers : pc[w] \in {"absent", Start(w)}
  BY DEF Init
<1>2. /\ \A c \in Clients : Start(c) = "call" /\ Start(Gate(c)) = "idle"
      /\ Start("hello") = "idle" /\ Start("cortexmm") = "write"
      /\ Start("memclient") = "title"
  BY GateFacts DEF Start, Clients
<1>3. pc["secret"] # "absent" \/ pc["secret_h"] # "absent" => assembly = "sentinel_negtest"
  BY GateFacts DEF Init, Present, Assemblies
<1>4. Programs
  <2>1. \A w \in Writers : pc[w] \in Statements
    BY <1>1, <1>2, GateFacts DEF Clients, Statements
  <2>2. pc \in [Writers -> Statements]
    BY <2>1 DEF Init
  <2> QED
    BY <1>1, <1>2, <2>2, GateFacts DEF Programs, Clients, ClientPc, GatePc
<1>5. Verdicts
  BY <1>1, <1>2, <1>3, GateFacts DEF Init, Verdicts, Answered, Clients
<1> QED
  BY <1>4, <1>5 DEF TalkInv

\* A line has been logged, into the ring or with printf: on to what follows it.
LEMMA AdvanceTalk ==
  ASSUME TalkInv, NEW w \in Writers, pc[w] \in DOMAIN After,
         pc' = [pc EXCEPT ![w] = After[@]], UNCHANGED <<assembly, rpcVars>>
  PROVE  TalkInv'
<1>1. Programs'
  BY GateFacts, AfterFacts DEF TalkInv, Programs, Statements, Clients, ClientPc, GatePc
<1>2. Verdicts'
  BY GateFacts, AfterFacts DEF TalkInv, Programs, Statements, Verdicts, Answered, Clients, ClientPc, GatePc,
       rpcVars
<1> QED
  BY <1>1, <1>2 DEF TalkInv

LEMMA CallTalk == ASSUME TalkInv, NEW c \in Clients, Call(c) PROVE TalkInv'
<1>1. c # "secret" => Allowed(c)
  BY DEF Allowed, Label, ServerLabel
<1>2. c = "secret" => ~Allowed(c)
  BY DEF TalkInv, Verdicts, Answered, Call, Allowed, Label, ServerLabel
<1>3. Programs'
  BY <1>2, GateFacts DEF TalkInv, Programs, Statements, Call, Clients, ClientPc, GatePc
<1>4. Verdicts'
  BY <1>1, <1>2, GateFacts DEF TalkInv, Programs, Statements, Verdicts, Answered, Call, Clients, rpcVars
<1> QED
  BY <1>3, <1>4 DEF TalkInv

LEMMA AskTalk == ASSUME TalkInv, NEW c \in Clients, AskHello(c) PROVE TalkInv'
<1>1. Programs'
  BY GateFacts DEF TalkInv, Programs, Statements, AskHello, Clients, ClientPc, GatePc
<1>2. Verdicts'
  BY GateFacts DEF TalkInv, Programs, Statements, Verdicts, Answered, AskHello, Clients
<1> QED
  BY <1>1, <1>2 DEF TalkInv

LEMMA ReplyTalk == ASSUME TalkInv, HelloReplies PROVE TalkInv'
<1>0. server \in {"client", "public"}
  BY DEF TalkInv, Verdicts, HelloReplies
<1>1. Programs'
  BY <1>0, GateFacts DEF TalkInv, Programs, Statements, HelloReplies, Clients, ClientPc, GatePc
<1>2. Verdicts'
  BY <1>0, GateFacts DEF TalkInv, Programs, Statements, Verdicts, Answered, HelloReplies, Clients
<1> QED
  BY <1>1, <1>2 DEF TalkInv

LEMMA GateRepliesTalk == ASSUME TalkInv, NEW c \in Clients, GateReplies(c) PROVE TalkInv'
<1>1. Programs'
  BY GateFacts DEF TalkInv, Programs, Statements, GateReplies, Clients, ClientPc, GatePc
<1>2. CASE c = "client"
  BY <1>1, <1>2, GateFacts DEF TalkInv, Programs, Verdicts, Answered, GateReplies, rpcVars
<1>3. CASE c = "public"
  BY <1>1, <1>3, GateFacts DEF TalkInv, Programs, Verdicts, Answered, GateReplies, rpcVars
<1>4. CASE c = "secret"
  BY <1>1, <1>4, GateFacts DEF TalkInv, Programs, Verdicts, Answered, GateReplies, rpcVars
<1> QED
  BY <1>1, <1>2, <1>3, <1>4 DEF TalkInv, Clients

LEMMA StepTalk == ASSUME TalkInv, Copies, [Next]_vars PROVE TalkInv'
<1> USE DEF TalkInv
<1>1. CASE \E w \in Writers : ReadHead(w) \/ Measure(w) \/ CopyChar(w)
  BY <1>1 DEF ReadHead, Measure, CopyChar, Programs, Verdicts, Answered, rpcVars
<1>2. CASE \E w \in Writers : StoreHead(w)
  <2>1. PICK w \in Writers : StoreHead(w)
    BY <1>2
  <2>2. pc[w] \in DOMAIN After
    BY <2>1 DEF StoreHead, Copies
  <2> QED
    BY <2>1, <2>2, AdvanceTalk DEF StoreHead
<1>3. CASE \E w \in Writers : Printf(w)
  BY <1>3, AdvanceTalk DEF Printf
<1>4. CASE \E c \in Clients : Talks(c)
  BY <1>4, CallTalk, AskTalk, GateRepliesTalk DEF Talks
<1>5. CASE HelloReplies
  BY <1>5, ReplyTalk
<1>6. CASE CortexWrites
  <2>1. Programs'
    BY <1>6, GateFacts DEF CortexWrites, Programs, Statements
  <2>2. Verdicts'
    BY <1>6, GateFacts DEF CortexWrites, Programs, Verdicts, Answered, Clients, rpcVars
  <2> QED
    BY <2>1, <2>2
<1>7. CASE Prints
  BY <1>7 DEF Prints, ResetTail, ResetHead, PrintChar, Programs, Verdicts, Answered, rpcVars
<1>8. CASE UNCHANGED vars
  BY <1>8 DEF vars, Programs, Verdicts, Answered, rpcVars
<1> QED
  BY <1>1, <1>2, <1>3, <1>4, <1>5, <1>6, <1>7, <1>8 DEF Next, Logs

LEMMA InitCopies == Init => Copies
  BY GateFacts, PageLen, RingAssumption
  DEF Init, Copies, Frames, Outside, Start, Clients

\* The lines of lw, for the thread that takes the step and for all others.
LEMMA FrameStep ==
  ASSUME TalkInv, Copies, NEW w \in Writers, ReadHead(w) \/ Measure(w) \/ CopyChar(w)
  PROVE  Copies'
<1> USE PageLen, GateFacts, AfterFacts
<1>1. UNCHANGED <<assembly, pc, written, head, tail>> /\ clean' \in {0, 1}
  BY DEF Copies, ReadHead, Measure, CopyChar, Account
<1>2. CASE ReadHead(w)
  <2>1. frame' \in [Writers -> Frames]
    BY <1>2 DEF Copies, ReadHead, Frames
  <2> QED
    BY <1>1, <1>2, <2>1 DEF Copies, ReadHead, Outside
<1>3. CASE Measure(w)
  <2>1. PICK f \in Frames : frame' = [frame EXCEPT ![w] = f] /\ f.i = 0 /\ f.n <= written
          /\ (f.at = "measure" \/ f.at = "copy")
    <3>1. w = "memclient"
      BY <1>3 DEF Copies, Measure, TalkInv, Programs, ClientPc, GatePc
    <3>2. frame[w] \in Frames /\ frame[w].n <= written /\ frame[w].i = 0 /\ written \in 0 .. 3
      BY <1>3, <3>1 DEF Copies, Measure
    <3>3. CASE frame[w].n < written
      <4> DEFINE g == [frame[w] EXCEPT !.n = @ + 1]
      <4>1. g \in Frames /\ g.i = 0 /\ g.n <= written /\ g.at = "measure"
        BY <1>3, <3>2, <3>3 DEF Measure, Frames
      <4>2. frame' = [frame EXCEPT ![w] = g]
        BY <1>3, <3>3 DEF Measure
      <4> QED
        BY <4>1, <4>2
    <3>4. CASE ~(frame[w].n < written)
      <4> DEFINE g == [frame[w] EXCEPT !.at = "copy"]
      <4>1. g \in Frames /\ g.i = 0 /\ g.n <= written /\ g.at = "copy"
        BY <3>2 DEF Frames
      <4>2. frame' = [frame EXCEPT ![w] = g]
        BY <1>3, <3>4 DEF Measure
      <4> QED
        BY <4>1, <4>2
    <3> QED
      BY <3>3, <3>4
  <2>2. pc[w] = "page"
    BY <1>3 DEF Measure, Copies
  <2>3. frame' \in [Writers -> Frames]
    BY <2>1 DEF Copies
  <2>4. frame'[w] = f /\ \A v \in Writers \ {w} : frame'[v] = frame[v]
    BY <2>1 DEF Copies
  <2>5. f.i <= f.n
    BY <2>1 DEF Frames
  <2>6. assembly # "sentinel_negtest"
    BY <1>3 DEF Measure, Copies
  <2> QED
    BY <1>1, <2>1, <2>2, <2>3, <2>4, <2>5, <2>6 DEF Copies
<1>4. CASE CopyChar(w)
  <2>1. frame[w] \in Frames /\ (frame[w].x + 1) % RingSize \in 0 .. RingSize - 1
    BY ModBound DEF Copies, Frames
  <2>2. PICK f \in Frames : frame' = [frame EXCEPT ![w] = f] /\ f.at = "copy"
          /\ f.n = frame[w].n /\ f.i <= f.n
    <3> DEFINE y == (frame[w].x + 1) % RingSize
               j == frame[w].i + 1
               g == [frame[w] EXCEPT !.x = y, !.i = j]
    <3>1. frame' = [frame EXCEPT ![w] = g]
      BY <1>4 DEF CopyChar
    <3>2. y \in 0 .. RingSize - 1
      BY <2>1
    <3>3. j \in 0 .. 3 /\ j <= frame[w].n /\ frame[w].at = "copy"
      BY <1>4, <2>1 DEF CopyChar, Frames
    <3> HIDE DEF y, j
    <3>4. g \in Frames /\ g.at = "copy" /\ g.n = frame[w].n /\ g.i = j
      BY <2>1, <3>2, <3>3 DEF Frames
    <3> QED
      BY <3>1, <3>3, <3>4
  <2>3. pc[w] \in DOMAIN After /\ frame[w].at = "copy"
    BY <1>4 DEF CopyChar, Copies
  <2>4. frame' \in [Writers -> Frames]
    BY <2>2 DEF Copies
  <2> QED
    BY <1>1, <2>2, <2>3, <2>4 DEF Copies, Frames
<1> QED
  BY <1>2, <1>3, <1>4

LEMMA OutsideIsFrame == Outside \in Frames /\ Outside.at = "outside" /\ Outside.n = 0
                        /\ Outside.i = 0
  BY PageLen, RingAssumption DEF Outside, Frames

LEMMA AdvanceCopies ==
  ASSUME TalkInv, Copies, NEW w \in Writers, StoreHead(w) \/ Printf(w)
  PROVE  Copies'
<1> USE GateFacts, AfterFacts, OutsideIsFrame
<1>1. pc[w] \in DOMAIN After /\ pc' = [pc EXCEPT ![w] = After[@]]
  BY DEF Copies, StoreHead, Printf
<1>2. /\ pc'["cortexmm"] = "write" => pc["cortexmm"] = "write"
      /\ pc'["memclient"] = "page" => pc["memclient"] = "page" \/ w = "memclient"
      /\ \A v \in Writers \ {w} : pc'[v] = pc[v]
  BY <1>1 DEF TalkInv, Programs
<1>3. CASE StoreHead(w)
  <2>1. frame' = [frame EXCEPT ![w] = Outside] /\ head' = frame[w].x
        /\ UNCHANGED <<assembly, written, tail>>
    BY <1>3 DEF StoreHead
  <2>2. head' \in 0 .. RingSize - 1 /\ frame' \in [Writers -> Frames]
    BY <2>1 DEF Copies, Frames
  <2>3. clean' \in {0, 1}
    BY <1>3 DEF StoreHead, Account, Copies
  <2>4. frame'[w] = Outside /\ \A v \in Writers \ {w} : frame'[v] = frame[v]
    BY <2>1 DEF Copies
  <2>5. pc["memclient"] = "page" /\ w # "memclient" => frame'["memclient"].n <= written'
    BY <2>1, <2>4 DEF Copies
  <2>6. written' \in 0 .. 3
    BY <2>1 DEF Copies
  <2> QED
    BY <1>2, <2>1, <2>2, <2>3, <2>4, <2>5, <2>6 DEF Copies
<1>4. CASE Printf(w)
  <2>1. UNCHANGED <<assembly, written, head, tail, frame, clean>>
        /\ assembly = "sentinel_negtest"
    BY <1>4 DEF Printf, ringVars
  <2>2. frame["memclient"] = Outside /\ frame[w].at = "outside" /\ written \in 0 .. 3
    BY <2>1 DEF Copies
  <2> QED
    BY <1>2, <2>1, <2>2 DEF Copies
<1> QED
  BY <1>3, <1>4

\* The threads that call and answer are outside lw when they do.
LEMMA TalkCopies ==
  ASSUME TalkInv, Copies, (\E c \in Clients : Talks(c)) \/ HelloReplies
  PROVE  Copies'
<1> USE GateFacts, AfterFacts
<1>1. UNCHANGED <<assembly, written, head, tail, frame, clean>>
  BY DEF Talks, Call, AskHello, GateReplies, HelloReplies, ringVars
<1>2. pc'["cortexmm"] = pc["cortexmm"] /\ pc'["memclient"] = pc["memclient"]
  BY DEF Talks, Call, AskHello, GateReplies, HelloReplies, TalkInv, Programs, Verdicts,
         Clients
<1>3. \A w \in Writers : pc[w] \in DOMAIN After => pc'[w] \in DOMAIN After
  <2>1. CASE \E c \in Clients : Talks(c)
    BY <2>1 DEF Talks, Call, AskHello, GateReplies, TalkInv, Programs, Clients
  <2>2. CASE HelloReplies
    BY <2>2 DEF HelloReplies, TalkInv, Programs, Verdicts
  <2> QED
    BY <2>1, <2>2
<1>4. \A w \in Writers : frame[w].at = "measure" => pc'[w] = "page"
  <2>1. \A w \in Writers : frame[w].at = "measure" => w = "memclient" /\ pc[w] = "page"
    BY DEF Copies, TalkInv, Programs, ClientPc, GatePc
  <2> QED
    BY <1>2, <2>1
<1> QED
  BY <1>1, <1>2, <1>3, <1>4 DEF Copies

LEMMA StepCopies == ASSUME TalkInv, Copies, [Next]_vars PROVE Copies'
<1>1. CASE \E w \in Writers : Logs(w)
  BY <1>1, FrameStep, AdvanceCopies DEF Logs
<1>2. CASE (\E c \in Clients : Talks(c)) \/ HelloReplies
  BY <1>2, TalkCopies
<1>3. CASE CortexWrites
  <2>1. UNCHANGED <<assembly, head, tail, frame, clean>> /\ written' = written + 1
        /\ written < 3 /\ written \in 0 .. 3
    BY <1>3 DEF CortexWrites, Copies, ringVars
  <2>2. pc' = [pc EXCEPT !["cortexmm"] = IF written' = 3 THEN "wrote" ELSE @]
    BY <1>3, PageLen DEF CortexWrites
  <2>3. pc["cortexmm"] = "write" /\ pc'["cortexmm"] \in {"write", "wrote"}
        /\ (pc'["cortexmm"] = "write" => written' < 3)
        /\ \A v \in Writers \ {"cortexmm"} : pc'[v] = pc[v]
    BY <1>3, <2>1, <2>2, GateFacts DEF CortexWrites, TalkInv, Programs
  <2>4. frame["cortexmm"].at = "outside"
    BY <2>3, GateFacts, AfterFacts DEF Copies
  <2>5. pc["memclient"] = "page" => frame["memclient"].n <= written'
    <3>1. frame["memclient"].n \in 0 .. 3
      BY GateFacts, PageLen DEF Copies, Frames
    <3> QED
      BY <2>1, <3>1 DEF Copies
  <2> QED
    BY <2>1, <2>3, <2>4, <2>5, GateFacts DEF Copies
<1>4. CASE Prints
  <2>1. UNCHANGED <<assembly, pc, written, frame>> /\ clean' \in {0, 1}
        /\ head' \in {head, 0} /\ tail' \in {tail, 0, (tail + 1) % RingSize}
    BY <1>4 DEF Prints, ResetTail, ResetHead, PrintChar, Account, Copies
  <2>2. head' \in 0 .. RingSize - 1 /\ tail' \in 0 .. RingSize - 1
    <3>1. (tail + 1) % RingSize \in 0 .. RingSize - 1
      BY ModBound DEF Copies
    <3> QED
      BY <2>1, <3>1, RingAssumption DEF Copies
  <2> QED
    BY <2>1, <2>2 DEF Copies
<1>5. CASE UNCHANGED vars
  BY <1>5 DEF vars, ringVars, Copies
<1> QED
  BY <1>1, <1>2, <1>3, <1>4, <1>5 DEF Next

LEMMA Invariance == Spec => [](TalkInv /\ Copies)
  BY InitTalk, InitCopies, StepTalk, StepCopies, PTL DEF Spec

\* Each thread keeps to its program, and no position leaves the ring.
THEOREM TypeCorrect == FairSpec => []TypeOK
<1>1. TalkInv /\ Copies => TypeOK
  BY GateFacts, AfterFacts, PageLen
  DEF TalkInv, Programs, Verdicts, Copies, TypeOK, Frames, ClientPc, GatePc, Clients
<1> QED
  BY <1>1, Invariance, PTL DEF FairSpec

\* The blocked client never reaches Hello, and the others' calls return after it.
THEOREM VerdictsAreKept == FairSpec => []VerdictIsKept
<1>1. TalkInv /\ Copies => VerdictIsKept
  BY DEF TalkInv, Verdicts, Answered, VerdictIsKept, Clients
<1> QED
  BY <1>1, Invariance, PTL DEF FairSpec

\* What MemClient has measured is still there when it copies it.
THEOREM PagesArePrefixes == FairSpec => []PageIsAPrefix
<1>1. TalkInv /\ Copies => PageIsAPrefix
  BY DEF Copies, PageIsAPrefix
<1> QED
  BY <1>1, Invariance, PTL DEF FairSpec

------------------------------------------------------------------------------

\* Positions of the ring without %: k cells after t, and from t on to h.
Cell(t, k) == IF t + k < RingSize THEN t + k ELSE t + k - RingSize
Dist(h, t) == IF h >= t THEN h - t ELSE h - t + RingSize
Positions == 0 .. RingSize - 1

LEMMA ModSmall == \A a \in 0 .. RingSize - 1 : a % RingSize = a
  BY RingAssumption

LEMMA ModLarge == \A a \in RingSize .. 2 * RingSize - 1 : a % RingSize = a - RingSize
  BY RingAssumption

LEMMA ModNegative == \A a \in Int : -RingSize < a /\ a < 0 => a % RingSize = a + RingSize
  BY RingAssumption

LEMMA CellIsSum ==
  ASSUME NEW t \in Positions, NEW k \in 0 .. RingSize
  PROVE  (t + k) % RingSize = Cell(t, k) /\ Cell(t, k) \in Positions
<1>1. CASE t + k < RingSize
  BY <1>1, ModSmall, RingAssumption DEF Cell, Positions
<1>2. CASE ~(t + k < RingSize)
  BY <1>2, ModLarge, RingAssumption DEF Cell, Positions
<1> QED
  BY <1>1, <1>2

LEMMA DistIsDifference ==
  ASSUME NEW h \in Positions, NEW t \in Positions
  PROVE  (h - t) % RingSize = Dist(h, t) /\ Dist(h, t) \in Positions
<1>1. CASE h >= t
  BY <1>1, ModSmall, RingAssumption DEF Dist, Positions
<1>2. CASE ~(h >= t)
  BY <1>2, ModNegative, RingAssumption DEF Dist, Positions
<1> QED
  BY <1>1, <1>2

\* A cell beyond all that is pending and copied is none of those cells.
LEMMA CellsApart ==
  ASSUME NEW h \in Positions, NEW t \in Positions, NEW i \in Nat, Dist(h, t) + i < RingSize
  PROVE  /\ \A k \in 0 .. Dist(h, t) - 1 : Cell(t, k) # Cell(h, i)
         /\ \A k \in 0 .. i - 1 : Cell(h, k) # Cell(h, i)
  BY RingAssumption DEF Dist, Cell, Positions

LEMMA NextCell ==
  ASSUME NEW h \in Positions, NEW i \in Positions
  PROVE  (Cell(h, i) + 1) % RingSize = Cell(h, i + 1)
<1>1. Cell(h, i) \in Positions
  BY RingAssumption DEF Cell, Positions
<1>2. (Cell(h, i) + 1) % RingSize = Cell(Cell(h, i), 1)
  BY <1>1, CellIsSum, RingAssumption
<1> QED
  BY <1>1, <1>2, RingAssumption DEF Cell, Positions

\* Moving the head on by a line, and the tail by a cell.
LEMMA HeadMoves ==
  ASSUME NEW h \in Positions, NEW t \in Positions, NEW n \in Nat, Dist(h, t) + n < RingSize
  PROVE  /\ Dist(Cell(h, n), t) = Dist(h, t) + n
         /\ \A k \in 0 .. n : Cell(t, Dist(h, t) + k) = Cell(h, k)
  BY RingAssumption DEF Dist, Cell, Positions

LEMMA TailMoves ==
  ASSUME NEW h \in Positions, NEW t \in Positions, h # t
  PROVE  /\ Dist(h, t) > 0
         /\ Dist(h, Cell(t, 1)) = Dist(h, t) - 1
         /\ \A k \in 0 .. RingSize - 2 : Cell(Cell(t, 1), k) = Cell(t, k + 1)
  BY RingAssumption DEF Dist, Cell, Positions

Chars == DOMAIN After \cup {"cortex", "re", "ady"}

\* The k-th character of the line that a thread is logging.
LineChar(w, k) == IF pc[w] = "page" THEN Page[k] ELSE pc[w]

\* What thread w has copied lies behind the head, in free cells, character by
\* character.
Copied(w) ==
  /\ frame[w].at # "outside"
  /\ frame[w].x = Cell(head, frame[w].i)
  /\ Dist(head, tail) + frame[w].i <= RingSize
  /\ pc[w] # "page" => frame[w].n = 1
  /\ \A k \in 1 .. frame[w].i : data[Cell(head, k - 1)] = LineChar(w, k)

\* What is pending is the backlog.
Stored ==
  /\ Len(backlog) = Dist(head, tail)
  /\ \A k \in 1 .. Len(backlog) : data[Cell(tail, k - 1)] = backlog[k]

\* A thread is inside lw by itself.
Alone == \A v, w \in Writers : frame[v] # Outside /\ frame[w] # Outside => v = w

\* A client waits as long as its gate is busy.
Waits == \A c \in Clients : pc[Gate(c)] \in {"absent", "idle"} \/ pc[c] = "wait"

RingInv ==
  /\ printer # "print" => tail = 0
  /\ data \in [Positions -> Chars \cup {"nul"}]
  /\ backlog \in Seq(Chars)
  /\ clean = 1 => Stored /\ Alone /\ \A w \in Writers : frame[w] # Outside => Copied(w)

LEMMA RingTypes ==
  ASSUME Copies
  PROVE  /\ head \in Positions /\ tail \in Positions
         /\ \A w \in Writers : /\ frame[w].x \in Positions
                               /\ frame[w].n \in 0 .. 3 /\ frame[w].i \in 0 .. frame[w].n
         /\ Dist(head, tail) \in Positions /\ Waiting = Dist(head, tail)
<1>1. head \in Positions /\ tail \in Positions
  BY DEF Copies, Positions
<1>2. ASSUME NEW w \in Writers
      PROVE  /\ frame[w].x \in Positions
             /\ frame[w].n \in 0 .. 3 /\ frame[w].i \in 0 .. frame[w].n
  BY PageLen DEF Copies, Frames, Positions
<1> QED
  BY <1>1, <1>2, DistIsDifference DEF Waiting

LEMMA InitWaits == Init => Waits
<1> SUFFICES ASSUME Init PROVE Waits
    OBVIOUS
<1>1. \A w \in Writers : pc[w] \in {"absent", Start(w)}
  BY DEF Init
<1>2. \A c \in Clients : Start(Gate(c)) = "idle" /\ Gate(c) \in Writers
  BY GateFacts DEF Start, Clients
<1> QED
  BY <1>1, <1>2 DEF Waits

LEMMA StepWaits == ASSUME TalkInv, Copies, Waits, [Next]_vars PROVE Waits'
<1> USE GateFacts DEF Clients
<1>0. pc \in [Writers -> Statements]
  BY DEF TalkInv, Programs
<1>1. ASSUME NEW w \in Writers, Logs(w) PROVE Waits'
  <2>1. CASE ReadHead(w) \/ Measure(w) \/ CopyChar(w)
    BY <2>1 DEF ReadHead, Measure, CopyChar, Waits
  <2>2. CASE StoreHead(w) \/ Printf(w)
    <3>1. pc[w] \in DOMAIN After /\ pc' = [pc EXCEPT ![w] = After[@]]
      BY <2>2 DEF StoreHead, Printf, Copies
    <3>2. \A c \in Clients : pc'[Gate(c)] \in {"absent", "idle"} \/ pc'[c] = "wait"
      BY <1>0, <3>1, AfterFacts DEF Waits, TalkInv, Programs, ClientPc, GatePc
    <3> QED
      BY <3>2 DEF Waits
  <2> QED
    BY <1>1, <2>1, <2>2 DEF Logs
<1>2. ASSUME NEW c \in Clients, Talks(c) PROVE Waits'
  BY <1>0, <1>2 DEF Talks, Call, AskHello, GateReplies, Waits
<1>3. CASE HelloReplies
  BY <1>0, <1>3 DEF HelloReplies, Waits, TalkInv, Verdicts
<1>4. CASE CortexWrites
  BY <1>0, <1>4 DEF CortexWrites, Waits
<1>5. CASE Prints \/ UNCHANGED vars
  BY <1>5 DEF Prints, ResetTail, ResetHead, PrintChar, vars, Waits
<1> QED
  BY <1>1, <1>2, <1>3, <1>4, <1>5 DEF Next

LEMMA InitRing == Init => RingInv
<1> SUFFICES ASSUME Init PROVE RingInv
    OBVIOUS
<1>1. data \in [Positions -> Chars \cup {"nul"}] /\ backlog \in Seq(Chars) /\ Len(backlog) = 0
  BY DEF Init, Positions
<1>2. Dist(head, tail) = 0 /\ tail = 0 /\ \A w \in Writers : frame[w] = Outside
  BY RingAssumption DEF Init, Dist
<1> QED
  BY <1>1, <1>2 DEF RingInv, Stored, Alone

LEMMA PageChars == Page[1] = "cortex" /\ Page[2] = "re" /\ Page[3] = "ady"
  BY DEF Page

LEMMA RingReadHead ==
  ASSUME Copies, RingInv, NEW w \in Writers, ReadHead(w)
  PROVE  RingInv'
<1>1. UNCHANGED <<pc, head, tail, data, printer>>
  BY DEF ReadHead
<1>2. backlog' \in Seq(Chars)
  BY DEF ReadHead, Account, RingInv
<1>3. ASSUME clean' = 1
      PROVE  clean = 1 /\ backlog' = backlog /\ \A v \in Writers : frame[v] = Outside
  BY <1>3 DEF ReadHead, Account
<1>4. PICK g \in Frames : /\ frame' = [frame EXCEPT ![w] = g]
                          /\ g.at # "outside" /\ g.x = head /\ g.i = 0
                          /\ pc[w] # "page" => g.n = 1
  <2>1. head \in Positions /\ 0 \in 0 .. Len(Page) /\ 1 \in 0 .. Len(Page)
    BY PageLen, RingTypes
  <2>2. CASE pc[w] = "page"
    <3> DEFINE g == [at |-> "measure", x |-> head, n |-> 0, i |-> 0]
    <3>1. frame' = [frame EXCEPT ![w] = g]
      BY <2>2 DEF ReadHead
    <3>2. g \in Frames
      BY <2>1 DEF Frames, Positions
    <3> QED
      BY <2>2, <3>1, <3>2
  <2>3. CASE pc[w] # "page"
    <3> DEFINE g == [at |-> "copy", x |-> head, n |-> 1, i |-> 0]
    <3>1. frame' = [frame EXCEPT ![w] = g]
      BY <2>3 DEF ReadHead
    <3>2. g \in Frames
      BY <2>1 DEF Frames, Positions
    <3> QED
      BY <3>1, <3>2
  <2> QED
    BY <2>2, <2>3
<1>5. /\ frame'[w] = g
      /\ \A v \in Writers \ {w} : frame'[v] = frame[v]
  BY <1>4 DEF Copies
<1>6. ASSUME clean' = 1 PROVE Stored' /\ Alone'
  BY <1>1, <1>3, <1>5, <1>6 DEF RingInv, Stored, Alone
<1>7. ASSUME clean' = 1, NEW v \in Writers, frame'[v] # Outside PROVE Copied(v)'
  <2>1. v = w
    BY <1>3, <1>5, <1>7
  <2>2. Cell(head, 0) = head /\ Dist(head, tail) + 0 <= RingSize
    BY RingTypes, RingAssumption DEF Cell, Positions
  <2> QED
    BY <1>1, <1>4, <1>5, <2>1, <2>2 DEF Copied
<1> QED
  BY <1>1, <1>2, <1>6, <1>7 DEF RingInv

LEMMA RingMeasure ==
  ASSUME TalkInv, Copies, RingInv, NEW w \in Writers, Measure(w)
  PROVE  RingInv'
<1>1. UNCHANGED <<pc, head, tail, data, printer, clean, backlog>>
  BY DEF Measure
<1>2. pc[w] = "page" /\ frame[w].i = 0 /\ frame[w] # Outside
  BY OutsideIsFrame DEF Measure, Copies
<1>3. PICK g \in Frames : /\ frame' = [frame EXCEPT ![w] = g]
                          /\ g.at # "outside" /\ g.x = frame[w].x /\ g.i = 0
  <2>0. frame[w] \in Frames
    BY DEF Copies
  <2>1. CASE frame[w].n < written
    <3> DEFINE g == [frame[w] EXCEPT !.n = @ + 1]
    <3>1. frame[w].n + 1 \in 0 .. Len(Page)
      BY <2>0, <2>1, PageLen DEF Copies, Frames
    <3>2. g \in Frames /\ g.at = "measure" /\ g.x = frame[w].x /\ g.i = 0
      BY <1>2, <2>0, <3>1 DEF Measure, Frames
    <3>3. frame' = [frame EXCEPT ![w] = g]
      BY <2>1 DEF Measure
    <3> QED
      BY <3>2, <3>3
  <2>2. CASE ~(frame[w].n < written)
    <3> DEFINE g == [frame[w] EXCEPT !.at = "copy"]
    <3>2. g \in Frames /\ g.at = "copy" /\ g.x = frame[w].x /\ g.i = 0
      BY <1>2, <2>0 DEF Frames
    <3>3. frame' = [frame EXCEPT ![w] = g]
      BY <2>2 DEF Measure
    <3> QED
      BY <3>2, <3>3
  <2> QED
    BY <2>1, <2>2
<1>4. /\ frame'[w] = g
      /\ \A v \in Writers \ {w} : frame'[v] = frame[v]
  BY <1>3 DEF Copies
<1>5. ASSUME clean' = 1 PROVE Stored' /\ Alone'
  BY <1>1, <1>2, <1>4, <1>5 DEF RingInv, Stored, Alone
<1>6. ASSUME clean' = 1, NEW v \in Writers, frame'[v] # Outside PROVE Copied(v)'
  <2>1. CASE v = w
    BY <1>1, <1>2, <1>3, <1>4, <1>6, <2>1 DEF RingInv, Copied
  <2>2. CASE v # w
    BY <1>1, <1>4, <1>6, <2>2 DEF RingInv, Copied, LineChar
  <2> QED
    BY <2>1, <2>2
<1> QED
  BY <1>1, <1>5, <1>6 DEF RingInv

LEMMA RingCopyChar ==
  ASSUME TalkInv, Copies, RingInv, NEW w \in Writers, CopyChar(w)
  PROVE  RingInv'
<1>1. UNCHANGED <<pc, head, tail, printer>>
  BY DEF CopyChar
<1>2. backlog' \in Seq(Chars)
  BY DEF CopyChar, Account, RingInv
<1> DEFINE i == frame[w].i
           x == frame[w].x
           c == LineChar(w, i + 1)
<1>3. /\ frame[w] \in Frames /\ x \in Positions /\ i \in Nat /\ frame[w].n \in 0 .. 3
      /\ i < frame[w].n /\ frame[w].at = "copy" /\ pc[w] \in DOMAIN After
      /\ frame[w] # Outside
  BY RingTypes, OutsideIsFrame DEF CopyChar, Copies
<1>4. Char(w, i + 1) = c /\ c \in Chars
  <2>1. CASE pc[w] = "page"
    <3>1. w = "memclient"
      BY <2>1, GateFacts DEF TalkInv, Programs, ClientPc, GatePc
    <3>2. i + 1 <= written /\ i + 1 \in 1 .. 3
      BY <1>3, <2>1, <3>1 DEF Copies
    <3> QED
      BY <2>1, <3>2, PageChars DEF Char, LineChar, Chars
  <2>2. CASE pc[w] # "page"
    BY <1>3, <2>2 DEF Char, LineChar, Chars
  <2> QED
    BY <2>1, <2>2
<1>5. data' = [data EXCEPT ![x] = c]
  BY <1>4 DEF CopyChar
<1>6. data' \in [Positions -> Chars \cup {"nul"}]
  BY <1>3, <1>4, <1>5 DEF RingInv
<1>7. ASSUME clean' = 1
      PROVE  clean = 1 /\ backlog' = backlog /\ Dist(head, tail) + i < RingSize
  BY <1>7, RingTypes DEF CopyChar, Account
<1>8. PICK g \in Frames : /\ frame' = [frame EXCEPT ![w] = g]
                          /\ g.at = "copy" /\ g.x = (x + 1) % RingSize /\ g.i = i + 1
                          /\ g.n = frame[w].n
  <2> DEFINE y == (x + 1) % RingSize
             j == i + 1
             g == [frame[w] EXCEPT !.x = y, !.i = j]
  <2>1. frame' = [frame EXCEPT ![w] = g]
    BY DEF CopyChar
  <2>2. y \in 0 .. RingSize - 1
    BY <1>3, ModBound DEF Positions
  <2>3. j \in 0 .. Len(Page)
    BY <1>3, PageLen
  <2>4. g.at = frame[w].at /\ g.n = frame[w].n /\ g.x = y /\ g.i = j /\ g \in Frames
    <3> HIDE DEF y, j
    <3> QED
      BY <1>3, <2>2, <2>3 DEF Frames
  <2> QED
    BY <1>3, <2>1, <2>4
<1>9. /\ frame'[w] = g
      /\ \A v \in Writers \ {w} : frame'[v] = frame[v]
  BY <1>8 DEF Copies
<1>10. g # Outside
  BY <1>8, OutsideIsFrame
<1>11. ASSUME clean' = 1 PROVE RingInv'
  <2>1. Stored /\ Alone /\ Copied(w)
    BY <1>3, <1>7, <1>11 DEF RingInv
  <2>2. /\ x = Cell(head, i)
        /\ \A k \in 0 .. Dist(head, tail) - 1 : Cell(tail, k) # x
        /\ \A k \in 0 .. i - 1 : Cell(head, k) # x
    BY <1>3, <1>7, <1>11, <2>1, RingTypes, CellsApart DEF Copied
  <2>3. \A p \in Positions : p # x => data'[p] = data[p]
    BY <1>5 DEF RingInv
  <2>4. data'[x] = c
    BY <1>3, <1>5 DEF RingInv
  <2>5. Stored'
    <3>1. ASSUME NEW k \in 1 .. Len(backlog) PROVE data'[Cell(tail, k - 1)] = backlog[k]
      <4>1. k - 1 \in 0 .. Dist(head, tail) - 1 /\ k - 1 \in 0 .. RingSize
        BY <2>1, RingTypes, RingAssumption DEF Stored, Positions
      <4>2. Cell(tail, k - 1) \in Positions
        BY <4>1, RingTypes, CellIsSum
      <4> QED
        BY <2>1, <2>2, <2>3, <4>1, <4>2 DEF Stored
    <3> QED
      BY <1>1, <1>7, <1>11, <2>1, <3>1 DEF Stored
  <2>6. Alone'
    BY <1>3, <1>9, <2>1 DEF Alone
  <2>7. Copied(w)'
    <3>1. i \in Positions
      BY <1>3, <1>7, <1>11, RingTypes, RingAssumption DEF Positions
    <3>2. g.x = Cell(head, i + 1)
      BY <1>8, <2>2, <3>1, RingTypes, NextCell
    <3>3. ASSUME NEW k \in 1 .. i PROVE data'[Cell(head, k - 1)] = LineChar(w, k)
      <4>1. k - 1 \in 0 .. i - 1 /\ k - 1 \in 0 .. RingSize
        BY <1>3, <3>1, RingAssumption DEF Positions
      <4>2. Cell(head, k - 1) \in Positions
        BY <4>1, RingTypes, CellIsSum
      <4> QED
        BY <2>1, <2>2, <2>3, <4>1, <4>2 DEF Copied
    <3>4. \A k \in 1 .. i + 1 : data'[Cell(head, k - 1)] = LineChar(w, k)
      <4>1. \A k \in 1 .. i + 1 : k \in 1 .. i \/ k = i + 1
        BY <1>3
      <4>2. data'[Cell(head, (i + 1) - 1)] = LineChar(w, i + 1)
        BY <1>3, <2>2, <2>4
      <4> QED
        BY <3>3, <4>1, <4>2
    <3>5. Dist(head, tail) + (i + 1) <= RingSize
      BY <1>3, <1>7, <1>11, RingTypes, RingAssumption DEF Positions
    <3> QED
      BY <1>1, <1>8, <1>9, <2>1, <3>2, <3>4, <3>5 DEF Copied, LineChar
  <2>8. \A v \in Writers : frame'[v] # Outside => v = w
    BY <1>3, <1>9, <2>1 DEF Alone
  <2> QED
    BY <1>1, <1>2, <1>6, <2>5, <2>6, <2>7, <2>8 DEF RingInv
<1> QED
  BY <1>1, <1>2, <1>6, <1>11 DEF RingInv

LEMMA LineIsSequence ==
  ASSUME Copies, NEW w \in Writers, StoreHead(w)
  PROVE  /\ Line(w) \in Seq(Chars)
         /\ pc[w] = "page" \/ frame[w].n = 1 =>
              /\ Len(Line(w)) = frame[w].n
              /\ \A k \in 1 .. frame[w].n : Line(w)[k] = LineChar(w, k)
<1>1. frame[w].n \in 0 .. 3 /\ pc[w] \in DOMAIN After
  BY RingTypes DEF StoreHead, Copies
<1>2. Page \in Seq(Chars) /\ Len(Page) = 3
  BY DEF Page, Chars
<1>3. CASE pc[w] = "page"
  <2>1. Line(w) = SubSeq(Page, 1, frame[w].n)
    BY <1>3 DEF Line
  <2>2. /\ SubSeq(Page, 1, frame[w].n) \in Seq(Chars)
        /\ Len(SubSeq(Page, 1, frame[w].n)) = frame[w].n
        /\ \A k \in 1 .. frame[w].n : SubSeq(Page, 1, frame[w].n)[k] = Page[k]
    <3> DEFINE n == frame[w].n
    <3>0. n \in 0 .. 3
      BY <1>1
    <3> HIDE DEF n
    <3>1. n \in 0 .. 3 /\ \A k \in 1 .. n : Page[k] \in Chars
      <4> SUFFICES ASSUME NEW k \in 1 .. n PROVE Page[k] \in Chars
        BY <3>0
      <4>1. k \in 1 .. Len(Page)
        BY <1>2, <3>0
      <4> QED
        BY <1>2, <4>1, ElementOfSeq
    <3>2. /\ SubSeq(Page, 1, n) \in Seq(Chars)
          /\ Len(SubSeq(Page, 1, n)) = IF 1 <= n THEN n - 1 + 1 ELSE 0
          /\ \A k \in 1 .. n - 1 + 1 : SubSeq(Page, 1, n)[k] = Page[1 + k - 1]
      BY <3>1, SubSeqProperties
    <3>3. n - 1 + 1 = n /\ \A k \in 1 .. n : 1 + k - 1 = k
      BY <3>1
    <3>4. Len(SubSeq(Page, 1, n)) = n /\ \A k \in 1 .. n : SubSeq(Page, 1, n)[k] = Page[k]
      BY <3>1, <3>2, <3>3
    <3> QED
      BY <3>2, <3>4 DEF n
  <2> QED
    BY <1>3, <2>1, <2>2 DEF LineChar
<1>4. CASE pc[w] # "page"
  <2>1. Line(w) = <<pc[w]>> /\ pc[w] \in Chars
    BY <1>1, <1>4 DEF Line, Chars
  <2>2. \A k \in 1 .. 1 : k = 1
    OBVIOUS
  <2> QED
    BY <1>4, <2>1, <2>2 DEF LineChar
<1> QED
  BY <1>3, <1>4

LEMMA RingStoreHead ==
  ASSUME TalkInv, Copies, RingInv, NEW w \in Writers, StoreHead(w)
  PROVE  RingInv'
<1>1. UNCHANGED <<tail, data, printer>> /\ head' = frame[w].x
  BY DEF StoreHead
<1> DEFINE n == frame[w].n
           d == Dist(head, tail)
<1>2. /\ n \in Nat /\ frame[w].i = n /\ frame[w] # Outside
      /\ frame'[w] = Outside /\ \A v \in Writers \ {w} : frame'[v] = frame[v]
  <2>1. frame[w].at = "copy" /\ frame[w].i = n /\ frame' = [frame EXCEPT ![w] = Outside]
    BY DEF StoreHead
  <2> QED
    BY <2>1, RingTypes, OutsideIsFrame DEF Copies
<1>3. Line(w) \in Seq(Chars)
  BY LineIsSequence
<1>4. backlog' \in Seq(Chars)
  <2>1. backlog \o Line(w) \in Seq(Chars)
    BY <1>3 DEF RingInv
  <2> QED
    BY <2>1 DEF StoreHead, Account
<1>5. ASSUME clean' = 1
      PROVE  clean = 1 /\ d + n < RingSize /\ backlog' = backlog \o Line(w)
  BY <1>5, RingTypes DEF StoreHead, Account
<1>6. ASSUME clean' = 1 PROVE RingInv'
  <2>1. Stored /\ Alone /\ Copied(w)
    BY <1>2, <1>5, <1>6 DEF RingInv
  <2>2. head' = Cell(head, n)
    BY <1>1, <1>2, <2>1 DEF Copied
  <2>3. /\ Dist(head', tail) = d + n
        /\ \A k \in 0 .. n : Cell(tail, d + k) = Cell(head, k)
    BY <1>2, <1>5, <1>6, <2>2, RingTypes, HeadMoves
  <2>4. Len(Line(w)) = n /\ \A k \in 1 .. n : Line(w)[k] = LineChar(w, k)
    BY <2>1, LineIsSequence DEF Copied
  <2>5. Len(backlog) = d /\ d \in Nat
    BY <2>1, RingTypes, RingAssumption DEF Stored, Positions
  <2>6. Len(backlog') = d + n
    BY <1>3, <1>5, <1>6, <2>4, <2>5 DEF RingInv
  <2>7. ASSUME NEW k \in 1 .. d + n PROVE data[Cell(tail, k - 1)] = backlog'[k]
    <3>1. CASE k <= d
      <4>1. backlog'[k] = backlog[k]
        BY <1>3, <1>5, <1>6, <2>5, <3>1 DEF RingInv
      <4>2. k \in 1 .. Len(backlog)
        BY <2>5, <3>1
      <4> QED
        BY <2>1, <4>1, <4>2 DEF Stored
    <3>2. CASE k > d
      <4>1. k - d \in 1 .. n /\ k - d - 1 \in 0 .. n /\ d + (k - d - 1) = k - 1
        BY <1>2, <2>5, <3>2
      <4>2. backlog'[k] = Line(w)[k - d]
        <5>1. /\ backlog \in Seq(Chars) /\ Len(Line(w)) = n /\ ~(k <= Len(backlog))
              /\ k \in 1 .. Len(backlog) + Len(Line(w))
          BY <2>4, <2>5, <3>2 DEF RingInv
        <5>2. (backlog \o Line(w))[k] = Line(w)[k - Len(backlog)]
          BY <1>3, <5>1, ConcatProperties
        <5> QED
          BY <1>5, <1>6, <2>5, <5>2
      <4>3. Cell(tail, k - 1) = Cell(head, k - d - 1)
        BY <2>3, <4>1
      <4>4. data[Cell(head, (k - d) - 1)] = LineChar(w, k - d)
        BY <1>2, <2>1, <4>1 DEF Copied
      <4> QED
        BY <2>4, <4>1, <4>2, <4>3, <4>4
    <3> QED
      BY <1>2, <2>5, <3>1, <3>2
  <2>8. Stored'
    BY <1>1, <2>3, <2>6, <2>7 DEF Stored
  <2>9. \A v \in Writers : frame'[v] = Outside
    BY <1>2, <2>1 DEF Alone
  <2> QED
    BY <1>1, <1>4, <2>8, <2>9 DEF RingInv, Alone
<1> QED
  BY <1>1, <1>4, <1>6 DEF RingInv

\* The threads inside lw do not move, and neither does the head.
LEMMA RingKeeps ==
  ASSUME Copies, RingInv, UNCHANGED ringVars,
         \A w \in Writers : frame[w].at # "outside" => pc'[w] = pc[w]
  PROVE  RingInv'
<1>1. UNCHANGED <<head, tail, data, frame, printer, clean, backlog>>
  BY DEF ringVars
<1>2. ASSUME clean = 1, NEW w \in Writers, frame[w] # Outside PROVE Copied(w)'
  BY <1>1, <1>2 DEF RingInv, Copied, LineChar
<1> QED
  BY <1>1, <1>2 DEF RingInv, Stored, Alone

LEMMA RingTalks ==
  ASSUME TalkInv, Copies, Waits, RingInv, (\E c \in Clients : Talks(c)) \/ HelloReplies
  PROVE  RingInv'
<1> USE GateFacts, AfterFacts
<1>0. pc \in [Writers -> Statements] /\ UNCHANGED ringVars
  BY DEF TalkInv, Programs, Talks, Call, AskHello, GateReplies, HelloReplies
<1>1. \A w \in Writers : pc[w] \in DOMAIN After => pc'[w] = pc[w]
  <2>1. ASSUME NEW c \in Clients, Talks(c)
        PROVE  \A w \in Writers : pc[w] \in DOMAIN After => pc'[w] = pc[w]
    BY <1>0, <2>1 DEF Talks, Call, AskHello, GateReplies, Waits, Clients
  <2>2. CASE HelloReplies
    BY <1>0, <2>2 DEF HelloReplies, TalkInv, Verdicts
  <2> QED
    BY <2>1, <2>2
<1> QED
  BY <1>0, <1>1, RingKeeps DEF Copies

LEMMA RingPrints ==
  ASSUME Copies, RingInv, Prints
  PROVE  RingInv'
<1>1. UNCHANGED <<pc, data, frame>>
  BY DEF Prints, ResetTail, ResetHead, PrintChar
<1>2. CASE ResetTail \/ ResetHead
  <2>1. tail' = tail /\ tail' = 0 /\ backlog' \in Seq(Chars)
    <3>1. tail' = tail /\ tail' = 0
      BY <1>2 DEF ResetTail, ResetHead, RingInv
    <3>2. backlog' = backlog \/ backlog' = <<>>
      BY <1>2 DEF ResetTail, ResetHead, Account
    <3>3. backlog \in Seq(Chars) /\ <<>> \in Seq(Chars)
      BY DEF RingInv
    <3> QED
      BY <3>1, <3>2, <3>3
  <2>2. ASSUME clean' = 1 PROVE clean = 1 /\ head' = head /\ backlog' = backlog
    BY <1>2, <2>2 DEF ResetTail, ResetHead, RingInv, Account
  <2>3. ASSUME clean' = 1 PROVE Stored' /\ Alone' /\ \A w \in Writers : frame'[w] # Outside => Copied(w)'
    BY <1>1, <2>1, <2>2, <2>3 DEF RingInv, Stored, Alone, Copied, LineChar
  <2> QED
    BY <1>1, <2>1, <2>3 DEF RingInv
<1>3. CASE PrintChar
  <2>1. printer' = "print" /\ tail # head /\ head' = head /\ tail' = (tail + 1) % RingSize
    BY <1>3 DEF PrintChar
  <2>2. tail' = Cell(tail, 1)
    BY <2>1, RingTypes, CellIsSum, RingAssumption
  <2>3. backlog' \in Seq(Chars)
    BY <1>3 DEF PrintChar, Account, RingInv
  <2>4. /\ Dist(head, tail) > 0 /\ Dist(head, tail) \in Positions
        /\ Dist(head, tail') = Dist(head, tail) - 1
        /\ \A k \in 0 .. RingSize - 2 : Cell(tail', k) = Cell(tail, k + 1)
    BY <2>1, <2>2, RingTypes, TailMoves
  <2>5. ASSUME clean' = 1 PROVE RingInv'
    <3>1. clean = 1 /\ Stored /\ Alone
      BY <1>3, <2>5 DEF PrintChar, Account, RingInv
    <3>2. backlog # <<>> /\ Len(backlog) \in Nat /\ Len(backlog) = Dist(head, tail)
      BY <2>4, <3>1 DEF Stored, RingInv
    <3>3. backlog' = Tail(backlog)
      BY <1>3, <2>5, <3>1, <3>2 DEF PrintChar, Account
    <3>4. Len(backlog') = Len(backlog) - 1
          /\ \A k \in 1 .. Len(backlog) - 1 : backlog'[k] = backlog[k + 1]
      BY <3>2, <3>3 DEF RingInv
    <3>5. ASSUME NEW k \in 1 .. Len(backlog) - 1 PROVE data[Cell(tail', k - 1)] = backlog'[k]
      <4>1. k - 1 \in 0 .. RingSize - 2 /\ k + 1 \in 1 .. Len(backlog) /\ (k - 1) + 1 = (k + 1) - 1
        BY <2>4, <3>2, RingAssumption DEF Positions
      <4>2. Cell(tail', k - 1) = Cell(tail, (k + 1) - 1)
        BY <2>4, <4>1
      <4> QED
        BY <3>1, <3>4, <4>1, <4>2 DEF Stored
    <3>6. Stored'
      BY <1>1, <2>1, <2>4, <3>2, <3>4, <3>5 DEF Stored
    <3>7. ASSUME NEW w \in Writers, frame'[w] # Outside PROVE Copied(w)'
      <4>1. Copied(w)
        BY <1>1, <3>1, <3>7 DEF RingInv
      <4>2. Dist(head, tail') + frame[w].i <= RingSize
        BY <2>4, <4>1, RingTypes, RingAssumption DEF Copied, Positions
      <4> QED
        BY <1>1, <2>1, <4>1, <4>2 DEF Copied, LineChar
    <3> QED
      BY <1>1, <2>1, <2>3, <3>1, <3>6, <3>7 DEF RingInv, Alone
  <2> QED
    BY <1>1, <2>1, <2>3, <2>5 DEF RingInv
<1> QED
  BY <1>2, <1>3 DEF Prints

LEMMA StepRing == ASSUME TalkInv, Copies, Waits, RingInv, [Next]_vars PROVE RingInv'
<1>1. ASSUME NEW w \in Writers, Logs(w) PROVE RingInv'
  <2>1. CASE Printf(w)
    <3>1. UNCHANGED ringVars /\ \A v \in Writers : frame[v].at = "outside"
      BY <2>1 DEF Printf, Copies
    <3> QED
      BY <3>1, RingKeeps
  <2> QED
    BY <1>1, <2>1, RingReadHead, RingMeasure, RingCopyChar, RingStoreHead DEF Logs
<1>2. CASE (\E c \in Clients : Talks(c)) \/ HelloReplies
  BY <1>2, RingTalks
<1>3. CASE CortexWrites
  <2>1. UNCHANGED ringVars /\ pc["cortexmm"] \notin DOMAIN After
        /\ \A v \in Writers \ {"cortexmm"} : pc'[v] = pc[v]
    BY <1>3, AfterFacts DEF CortexWrites, TalkInv, Programs
  <2>2. \A w \in Writers : frame[w].at # "outside" => pc'[w] = pc[w]
    BY <2>1 DEF Copies
  <2> QED
    BY <2>1, <2>2, RingKeeps
<1>4. CASE Prints
  BY <1>4, RingPrints
<1>5. CASE UNCHANGED vars
  BY <1>5, RingKeeps DEF vars
<1> QED
  BY <1>1, <1>2, <1>3, <1>4, <1>5 DEF Next

\* What lies between tail and head is what was logged and not printed, in order
\* and complete, for a ring of any size: lw and LogRing need no lock as long as
\* no two lines overlap, the ring does not overflow and the reset comes first.
THEOREM TheRingIsAQueue == FairSpec => []RingHoldsTheBacklog
<1>1. Copies /\ RingInv => RingHoldsTheBacklog
  <2> SUFFICES ASSUME Copies, RingInv, clean = 1 PROVE Pending = backlog
    BY DEF RingHoldsTheBacklog
  <2>1. Stored /\ Waiting = Len(backlog) /\ Waiting \in Positions
    BY RingTypes DEF RingInv, Stored
  <2>2. ASSUME NEW k \in 1 .. Waiting
        PROVE  data[(tail + k - 1) % RingSize] = backlog[k]
    <3>1. k - 1 \in 0 .. RingSize /\ tail + k - 1 = tail + (k - 1) /\ tail \in Positions
      BY <2>1, RingTypes, RingAssumption DEF Positions
    <3>2. (tail + (k - 1)) % RingSize = Cell(tail, k - 1)
      BY <3>1, CellIsSum
    <3> QED
      BY <2>1, <3>1, <3>2 DEF Stored
  <2>3. backlog = [k \in 1 .. Len(backlog) |-> backlog[k]]
    BY DEF RingInv
  <2>4. Pending = [k \in 1 .. Waiting |-> backlog[k]]
    BY <2>2 DEF Pending
  <2> QED
    BY <2>1, <2>3, <2>4
<1>2. TalkInv /\ Copies /\ Waits /\ [Next]_vars => Waits'
  BY StepWaits
<1>3. TalkInv /\ Copies /\ Waits /\ RingInv /\ [Next]_vars => RingInv'
  BY StepRing
<1> QED
  BY Invariance, InitWaits, InitRing, <1>1, <1>2, <1>3, PTL DEF FairSpec, Spec

==============================================================================
