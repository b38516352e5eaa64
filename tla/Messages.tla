------------------------------- MODULE Messages -------------------------------
(***************************************************************************)
(* What the components say: the calls that Sentinel lets through or blocks *)
(* between clients and Hello, the page that CortexMM fills while MemClient *)
(* reads it, and the ring in which they all log.                           *)
(*                                                                         *)
(* lw, a copy of which is in every component, takes the head of the ring,  *)
(* measures the line, copies it and stores the head, without a lock;       *)
(* LogRing resets the ring when it starts and prints what lies between     *)
(* tail and head.  One action per access to the ring or the page and per   *)
(* RPC message.  A line is one character here, the page's as many as       *)
(* MemClient finds; lw's limits of 80 and 100 characters are never met.    *)
(*                                                                         *)
(* Three assemblies: cortexmm_demo, with CortexMM and MemClient;           *)
(* verse_unified, with one client, and without MemClient, which is the     *)
(* same there; and sentinel_negtest, with two clients, where printf takes  *)
(* the place of the ring.                                                  *)
(***************************************************************************)
EXTENDS Integers, Sequences

CONSTANT RingSize   \* 4088

ASSUME RingAssumption == RingSize \in Nat \ {0}

VARIABLES
  assembly,   \* the application that was built
  pc,         \* each thread: the statement it executes next
  server,     \* the client for whom Hello is working (the kernel's reply capability)
  written,    \* dataport page_allocatable: characters of the record so far
  head, tail, data,     \* dataport logbuf
  frame,      \* each thread: the locals of lw
  printer,    \* LogRing: its next statement
  served,     \* history: the clients Hello has worked for
  clean,      \* history: 1 until two lines overlap, the ring overflows, or
              \* LogRing resets it with lines in it
  backlog     \* history, as long as clean is 1: characters logged, not printed

rpcVars == <<server, served>>
ringVars == <<head, tail, data, frame, printer, clean, backlog>>
vars == <<assembly, pc, rpcVars, written, ringVars>>

Clients == {"client", "public", "secret"}
Gate(c) == CASE c = "client" -> "client_h"
             [] c = "public" -> "public_h"
             [] c = "secret" -> "secret_h"
Gates == {Gate(c) : c \in Clients}
Writers == Clients \cup Gates \cup {"hello", "cortexmm", "memclient"}

\* "CORTEX: ready"
Page == <<"cortex", "re", "ady">>

Assemblies == {"cortexmm_demo", "verse_unified", "sentinel_negtest"}

\* The statements that log a line, each with the one that follows it.
After == [call |-> "rpc", done |-> "end", forward |-> "ask", block |-> "reply",
          ok |-> "reply", wrote |-> "end", title |-> "page", page |-> "newline",
          newline |-> "end"]

Outside == [at |-> "outside", x |-> 0, n |-> 0, i |-> 0]

Present == CASE assembly = "cortexmm_demo" -> {"cortexmm", "memclient"}
             [] assembly = "verse_unified" -> {"client", "client_h", "hello", "cortexmm"}
             [] OTHER -> {"public", "secret", "public_h", "secret_h", "hello"}

Start(w) == CASE w \in Clients -> "call"
              [] w = "cortexmm" -> "write"
              [] w = "memclient" -> "title"
              [] OTHER -> "idle"

Init ==
  /\ assembly \in Assemblies
  /\ pc = [w \in Writers |-> IF w \in Present THEN Start(w) ELSE "absent"]
  /\ server = "nobody" /\ served = {}
  /\ written = 0
  /\ head = 0 /\ tail = 0
  /\ data = [k \in 0 .. RingSize - 1 |-> "nul"]
  /\ frame = [w \in Writers |-> Outside]
  /\ printer = IF assembly = "sentinel_negtest" THEN "absent" ELSE "resetTail"
  /\ clean = 1 /\ backlog = <<>>

------------------------------------------------------------------------------
\* lw

\* The ring is used as it should be, and b is what is left to print; or not.
Account(ok, b) ==
  /\ clean' = IF ok THEN clean ELSE 0
  /\ backlog' = IF ok /\ clean = 1 THEN b ELSE <<>>

Waiting == (head - tail) % RingSize

\* x = *h
ReadHead(w) ==
  /\ assembly # "sentinel_negtest"
  /\ pc[w] \in DOMAIN After
  /\ frame[w] = Outside
  /\ frame' = [frame EXCEPT ![w] =
       IF pc[w] = "page" THEN [at |-> "measure", x |-> head, n |-> 0, i |-> 0]
                         ELSE [at |-> "copy", x |-> head, n |-> 1, i |-> 0]]
  /\ Account(\A v \in Writers : frame[v] = Outside, backlog)
  /\ UNCHANGED <<assembly, pc, rpcVars, written, head, tail, data, printer>>

\* for (n = 0; m[n] ...; n++), on the page
Measure(w) ==
  /\ frame[w].at = "measure"
  /\ frame' = IF frame[w].n < written
                THEN [frame EXCEPT ![w].n = @ + 1]
                ELSE [frame EXCEPT ![w].at = "copy"]
  /\ UNCHANGED <<assembly, pc, rpcVars, written, head, tail, data, printer, clean, backlog>>

Char(w, k) ==
  IF pc[w] # "page" THEN pc[w] ELSE IF k <= written THEN Page[k] ELSE "nul"

\* Mutant of CopyChar: the position does not wrap.
CopyCharPastTheEnd(w) ==
  /\ frame[w].at = "copy"
  /\ frame[w].i < frame[w].n
  /\ data' = [data EXCEPT ![frame[w].x] = Char(w, frame[w].i + 1)]
  /\ frame' = [frame EXCEPT ![w].x = @ + 1, ![w].i = @ + 1]
  /\ Account(Waiting + frame[w].i < RingSize, backlog)
  /\ UNCHANGED <<assembly, pc, rpcVars, written, head, tail, printer>>

\* d[x] = m[i]; x = (x + 1) % 4088
CopyChar(w) ==
  /\ frame[w].at = "copy"
  /\ frame[w].i < frame[w].n
  /\ data' = [data EXCEPT ![frame[w].x] = Char(w, frame[w].i + 1)]
  /\ frame' = [frame EXCEPT ![w].x = (@ + 1) % RingSize, ![w].i = @ + 1]
  /\ Account(Waiting + frame[w].i < RingSize, backlog)
  /\ UNCHANGED <<assembly, pc, rpcVars, written, head, tail, printer>>

Line(w) ==
  IF pc[w] = "page" THEN SubSeq(Page, 1, frame[w].n) ELSE <<pc[w]>>

\* *h = x, and on to what follows the line
StoreHead(w) ==
  /\ frame[w].at = "copy"
  /\ frame[w].i = frame[w].n
  /\ head' = frame[w].x
  /\ frame' = [frame EXCEPT ![w] = Outside]
  /\ pc' = [pc EXCEPT ![w] = After[@]]
  /\ Account(Waiting + frame[w].n < RingSize, backlog \o Line(w))
  /\ UNCHANGED <<assembly, rpcVars, written, tail, data, printer>>

\* printf, in sentinel_negtest
Printf(w) ==
  /\ assembly = "sentinel_negtest"
  /\ pc[w] \in DOMAIN After
  /\ pc' = [pc EXCEPT ![w] = After[@]]
  /\ UNCHANGED <<assembly, rpcVars, written, ringVars>>

Logs(w) == ReadHead(w) \/ Measure(w) \/ CopyChar(w) \/ StoreHead(w) \/ Printf(w)

------------------------------------------------------------------------------
\* LogRing

\* r->h = r->t = 0 : first t,
ResetTail ==
  /\ printer = "resetTail"
  /\ tail' = 0
  /\ printer' = "resetHead"
  /\ UNCHANGED <<assembly, pc, rpcVars, written, head, data, frame, clean, backlog>>

\* then h.
ResetHead ==
  /\ printer = "resetHead"
  /\ head' = 0
  /\ printer' = "print"
  /\ Account(head = 0, backlog)
  /\ UNCHANGED <<assembly, pc, rpcVars, written, tail, data, frame>>

\* Mutant of PrintChar: the tail wraps one cell early.
PrintCharWrapsEarly ==
  /\ printer = "print"
  /\ tail # head
  /\ tail' = (tail + 1) % (RingSize - 1)
  /\ Account(TRUE, IF backlog = <<>> THEN <<>> ELSE Tail(backlog))
  /\ UNCHANGED <<assembly, pc, rpcVars, written, head, data, frame, printer>>

\* putchar(r->d[r->t]); r->t = (r->t + 1) % sizeof(r->d)
PrintChar ==
  /\ printer = "print"
  /\ tail # head
  /\ tail' = (tail + 1) % RingSize
  /\ Account(TRUE, IF backlog = <<>> THEN <<>> ELSE Tail(backlog))
  /\ UNCHANGED <<assembly, pc, rpcVars, written, head, data, frame, printer>>

Prints == ResetTail \/ ResetHead \/ PrintChar

------------------------------------------------------------------------------
\* Sentinel, its clients and Hello

Label(c) == IF c = "secret" THEN 2 ELSE 0
ServerLabel == IF assembly = "verse_unified" THEN 2 ELSE 0

\* Mutant of Allowed: the labels are compared the wrong way round.
AllowedDown(c) == Label(c) >= ServerLabel

\* label_allowed, of the client's and the server's label
Allowed(c) == Label(c) <= ServerLabel

\* h_say_hello in a client: Sentinel has a thread for each of its interfaces.
Call(c) ==
  /\ pc[c] = "rpc"
  /\ pc[Gate(c)] = "idle"
  /\ pc' = [pc EXCEPT ![c] = "wait",
                      ![Gate(c)] = IF Allowed(c) THEN "forward" ELSE "block"]
  /\ UNCHANGED <<assembly, rpcVars, written, ringVars>>

\* server_h_say_hello in Sentinel
AskHello(c) ==
  /\ pc[Gate(c)] = "ask"
  /\ pc["hello"] = "idle"
  /\ pc' = [pc EXCEPT ![Gate(c)] = "wait", !["hello"] = "ok"]
  /\ server' = c
  /\ served' = served \cup {c}
  /\ UNCHANGED <<assembly, written, ringVars>>

\* Mutant of HelloReplies: the answer does not reach Sentinel.
HelloForgets ==
  /\ pc["hello"] = "reply"
  /\ pc' = [pc EXCEPT !["hello"] = "idle"]
  /\ server' = "nobody"
  /\ UNCHANGED <<assembly, served, written, ringVars>>

HelloReplies ==
  /\ pc["hello"] = "reply"
  /\ pc' = [pc EXCEPT !["hello"] = "idle", ![Gate(server)] = "reply"]
  /\ server' = "nobody"
  /\ UNCHANGED <<assembly, served, written, ringVars>>

GateReplies(c) ==
  /\ pc[Gate(c)] = "reply"
  /\ pc' = [pc EXCEPT ![Gate(c)] = "idle", ![c] = "done"]
  /\ UNCHANGED <<assembly, rpcVars, written, ringVars>>

Talks(c) == Call(c) \/ AskHello(c) \/ GateReplies(c)

------------------------------------------------------------------------------
\* CortexMM

\* Mutant of CortexWrites: the page is cleared again before the line is logged.
CortexClears ==
  /\ pc["cortexmm"] = "write"
  /\ written' = (written + 1) % (Len(Page) + 1)
  /\ pc' = [pc EXCEPT !["cortexmm"] = IF written = Len(Page) THEN "wrote" ELSE @]
  /\ UNCHANGED <<assembly, rpcVars, ringVars>>

\* strcpy, a character at a time
CortexWrites ==
  /\ pc["cortexmm"] = "write"
  /\ written' = written + 1
  /\ pc' = [pc EXCEPT !["cortexmm"] = IF written' = Len(Page) THEN "wrote" ELSE @]
  /\ UNCHANGED <<assembly, rpcVars, ringVars>>

Next ==
  \/ \E w \in Writers : Logs(w)
  \/ \E c \in Clients : Talks(c)
  \/ HelloReplies
  \/ CortexWrites
  \/ Prints

Spec == Init /\ [][Next]_vars

\* Round robin at one priority: each thread with something to do runs again.
Fairness ==
  /\ \A w \in Writers : WF_vars(Logs(w))
  /\ \A c \in Clients : WF_vars(Talks(c))
  /\ WF_vars(HelloReplies)
  /\ WF_vars(CortexWrites)
  /\ WF_vars(Prints)

FairSpec == Spec /\ Fairness

------------------------------------------------------------------------------

TypeOK ==
  /\ assembly \in Assemblies
  /\ \A w \in Writers :
       pc[w] \in DOMAIN After \cup {"absent", "rpc", "wait", "end", "idle", "ask",
                                    "reply", "write"}
  /\ server \in Clients \cup {"nobody"} /\ served \subseteq Clients
  /\ written \in 0 .. Len(Page)
  /\ head \in 0 .. RingSize - 1 /\ tail \in 0 .. RingSize - 1
  /\ frame \in [Writers -> [at : {"outside", "measure", "copy"},
                            x : 0 .. RingSize - 1, n : 0 .. Len(Page), i : 0 .. Len(Page)]]
  /\ clean \in {0, 1}

Pending == [k \in 1 .. Waiting |-> data[(tail + k - 1) % RingSize]]

\* What lies between tail and head is what was logged and has not been printed,
\* in order and complete, as long as no two lines overlapped in time, the ring
\* did not overflow and no line came before LogRing's reset: those three are all
\* that lw and LogRing (logring.c line 6) need to be right without a lock.
RingHoldsTheBacklog == clean = 1 => Pending = backlog

\* MemClient logs a prefix of CortexMM's record, whenever it reads the page
\* (memclient.c line 6): what it has measured is still there when it copies.
PageIsAPrefix ==
  pc["memclient"] = "page" => frame["memclient"].n <= written

\* Hello never works for the secret client, and the call of any other returns
\* only when Hello has worked for it (sentinel.c of sentinel_negtest, lines 10
\* to 26).
VerdictIsKept ==
  /\ "secret" \notin served
  /\ \A c \in Clients \ {"secret"} : pc[c] \in {"done", "end"} => c \in served

\* Every call returns, the blocked one too.
CallsReturn == \A c \in Clients : <>(pc[c] \in {"end", "absent"})

\* LogRing catches up with the head once the writers have logged their last line,
\* whatever they did to the head before.  Of the components that log only
\* DharmaNet never ends; its lines are not among those followed here.
LogDrains == <>[](tail = head)

==============================================================================
