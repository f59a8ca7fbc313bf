----------------------------- MODULE ProxySpans -----------------------------
(***************************************************************************)
(* What the LLM proxy records (llm_proxy.py): RolloutAttemptMiddleware     *)
(* numbers a request and puts its identifiers into the headers, LiteLLM    *)
(* makes a tree of spans of it, and the threads that end spans export them *)
(* through one LightningSpanExporter, which keeps them until a root comes  *)
(* and then sends the tree to the store under the identifiers it finds in  *)
(* the tree's headers.  The store may fail at any span.                    *)
(***************************************************************************)
EXTENDS Integers, Sequences

CONSTANTS
  Requests,   \* requests to the proxy
  Attempts,   \* the attempts they may be made for
  Threads,    \* threads that end spans
  Direct,     \* the target of a request that names no attempt
  Spans       \* the spans: the request's root, the call of the model, the raw call

\* A tree of three at most.
Kinds == {"root", "call", "raw"}

Nobody == "none"

ASSUME DirectAssumption == Direct \notin Attempts
ASSUME SpansAssumption == Spans \subseteq Requests \X Kinds
ASSUME ThreadsAssumption == Nobody \notin Threads

VARIABLES
  path,      \* [Requests -> the attempt in its URL, or Direct]
  carrier,   \* the kind of span that records the request's headers
  otlp,      \* whether the store takes whole trees (OTLP)
  fresh,     \* whether the exporter is new to this process
  number,    \* [Requests -> the sequence id in its headers, or 0]
  counter,   \* [Attempts -> the last sequence id the store issued]
  ended,     \* the spans that have ended
  buffer,    \* the exporter's buffer; the order of its spans does not matter
  owned,     \* whether _loop_lock_pid is this process
  lock,      \* the lock object the exporter names, or 0
  locks,     \* the holders of the lock objects made so far
  thread,    \* [Threads -> where the thread is in export()]
  stored,    \* [Spans -> the identifiers it was stored under, or NoIds]
  dropped,   \* spans given up with a warning or a FAILURE
  failed     \* whether the last export was one

spanVars == <<path, carrier, otlp, fresh, number, counter, ended, buffer, owned, lock,
              locks, thread, stored, dropped, failed>>

NoIds == <<>>

Above == [k \in Kinds |-> CASE k = "root" -> {} [] k = "call" -> {"root"}
                            [] k = "raw" -> {"root", "call"}]

IsRoot(s) == s[2] = "root"

\* Where a thread is in export(): the tree it took from the buffer, what it will leave
\* there, and the roots it has yet to look at.
Idle == [pc |-> "idle", span |-> <<>>, lock |-> 0, todo |-> {}, tree |-> {},
         rest |-> {}, ids |-> NoIds]

Inside(t) == thread[t].pc \in {"flush", "assign", "send"}

SpansInit ==
  /\ path \in [Requests -> Attempts \cup {Direct}]
  /\ carrier \in {"root", "call"}
  /\ otlp \in BOOLEAN
  /\ fresh \in BOOLEAN
  /\ number = [r \in Requests |-> 0]
  /\ counter = [a \in Attempts |-> 0]
  /\ ended = {}
  /\ buffer = {}
  /\ owned = ~fresh
  /\ lock = IF fresh THEN 0 ELSE 1
  /\ locks = IF fresh THEN <<>> ELSE <<Nobody>>
  /\ thread = [t \in Threads |-> Idle]
  /\ stored = [s \in Spans |-> NoIds]
  /\ dropped = {}
  /\ failed = FALSE

Setting == <<path, carrier, otlp, fresh>>
Numbers == <<number, counter>>
Locking == <<owned, lock, locks>>
Results == <<stored, dropped, failed>>

Moves(t, x) == thread' = [thread EXCEPT ![t] = x]
Releases(t) == locks' = [locks EXCEPT ![thread[t].lock] = Nobody]

-----------------------------------------------------------------------------
\* The middleware asks the store for the next sequence id of the attempt.
Number(r) ==
  /\ path[r] # Direct
  /\ number[r] = 0
  /\ counter' = [counter EXCEPT ![path[r]] = @ + 1]
  /\ number' = [number EXCEPT ![r] = counter[path[r]] + 1]
  /\ UNCHANGED <<Setting, ended, buffer, Locking, thread, Results>>

\* A span of the request ends on thread t, which calls export() with it; the spans of
\* a tree end in any order.
Export(t, s) ==
  /\ thread[t].pc = "idle"
  /\ s \notin ended
  /\ path[s[1]] # Direct => number[s[1]] # 0
  /\ ended' = ended \cup {s}
  /\ Moves(t, [Idle EXCEPT !.span = s, !.lock = lock,
                         !.pc = IF ~owned THEN "clear"
                                ELSE IF lock = 0 THEN "ensure" ELSE "wait"])
  /\ UNCHANGED <<Setting, Numbers, buffer, Locking, Results>>

\* The lock of another process is forgotten.
ClearLock(t) ==
  /\ thread[t].pc = "clear"
  /\ owned' = TRUE
  /\ lock' = 0
  /\ Moves(t, [thread[t] EXCEPT !.pc = "ensure"])
  /\ UNCHANGED <<Setting, Numbers, ended, buffer, locks, Results>>

EnsureLock(t) ==
  /\ thread[t].pc = "ensure"
  /\ IF lock = 0
     THEN lock' = Len(locks) + 1 /\ locks' = Append(locks, Nobody)
     ELSE UNCHANGED <<lock, locks>>
  /\ Moves(t, [thread[t] EXCEPT !.pc = "wait", !.lock = lock'])
  /\ UNCHANGED <<Setting, Numbers, ended, buffer, owned, Results>>

\* Under the lock the span is appended, and the roots are those in the buffer then.
AppendSpan(t) ==
  /\ thread[t].pc = "wait"
  /\ locks[thread[t].lock] = Nobody
  /\ locks' = [locks EXCEPT ![thread[t].lock] = t]
  /\ buffer' = buffer \cup {thread[t].span}
  /\ Moves(t, [thread[t] EXCEPT !.pc = "flush", !.todo = {s \in buffer' : IsRoot(s)}])
  /\ UNCHANGED <<Setting, Numbers, ended, owned, lock, Results>>

\* Everything in the buffer belongs to the root.  (A plausible bug of Subtree.)
MutantWholeBuffer(b, root) == b

\* The spans of buffer b below root, as far as the spans between are there.
Subtree(b, root) ==
  {s \in b : s[1] = root[1] /\ \A k \in Above[s[2]] : <<s[1], k>> \in b}

\* Spans whose root is not there are given up.  (A plausible bug of Rest.)
MutantEmptyBuffer(b, root) == {}

\* What stays in the buffer.
Rest(b, root) == b \ Subtree(b, root)

PopSubtree(t) ==
  /\ thread[t].pc = "flush"
  /\ \E root \in thread[t].todo :
       Moves(t, [thread[t] EXCEPT !.pc = "assign", !.todo = @ \ {root},
                  !.rest = Rest(buffer, root), !.tree = Subtree(buffer, root)])
  /\ UNCHANGED <<Setting, Numbers, ended, buffer, Locking, Results>>

\* The spans of a tree that have the request's identifiers.
Carriers(tree) == {s \in tree : s[2] = carrier /\ path[s[1]] # Direct}

\* The rest becomes the buffer.  A tree without headers is dropped.
AssignBuffer(t) ==
  LET tree == thread[t].tree IN
  /\ thread[t].pc = "assign"
  /\ buffer' = thread[t].rest
  /\ \/ /\ Carriers(tree) = {}
        /\ dropped' = dropped \cup tree
        /\ Moves(t, [thread[t] EXCEPT !.pc = "flush", !.tree = {}, !.rest = {}])
     \/ /\ \E s \in Carriers(tree) :
             Moves(t, [thread[t] EXCEPT !.pc = "send", !.rest = {},
                        !.ids = <<path[s[1]], number[s[1]]>>])
        /\ UNCHANGED dropped
  /\ UNCHANGED <<Setting, Numbers, ended, Locking, stored, failed>>

\* The tree goes to the store, at once or span by span.
Send(t) ==
  /\ thread[t].pc = "send"
  /\ \E now \in IF otlp THEN {thread[t].tree} ELSE {{s} : s \in thread[t].tree} :
       LET left == thread[t].tree \ now IN
       /\ stored' = [s \in Spans |-> IF s \in now THEN thread[t].ids ELSE stored[s]]
       /\ Moves(t, [thread[t] EXCEPT !.tree = left, !.pc = IF left = {} THEN "flush" ELSE @])
  /\ UNCHANGED <<Setting, Numbers, ended, buffer, Locking, dropped, failed>>

\* The store fails: the rest of the tree is lost, other trees wait for the next export.
SendFails(t) ==
  /\ thread[t].pc = "send"
  /\ dropped' = dropped \cup thread[t].tree
  /\ failed' = TRUE
  /\ Releases(t)
  /\ Moves(t, Idle)
  /\ UNCHANGED <<Setting, Numbers, ended, buffer, owned, lock, stored>>

Succeed(t) ==
  /\ thread[t].pc = "flush"
  /\ thread[t].todo = {}
  /\ failed' = FALSE
  /\ Releases(t)
  /\ Moves(t, Idle)
  /\ UNCHANGED <<Setting, Numbers, ended, buffer, owned, lock, stored, dropped>>

SpansNext ==
  \/ \E r \in Requests : Number(r)
  \/ \E t \in Threads :
       \/ \E s \in Spans : Export(t, s)
       \/ ClearLock(t) \/ EnsureLock(t) \/ AppendSpan(t) \/ PopSubtree(t)
       \/ AssignBuffer(t) \/ Send(t) \/ SendFails(t) \/ Succeed(t)

SpansSpec == SpansInit /\ [][SpansNext]_spanVars

-----------------------------------------------------------------------------
\* A span is stored under the identifiers of its own request, whatever else is in the
\* buffer and whichever thread sends it.
StoredUnderOwnIds ==
  \A s \in Spans :
    stored[s] # NoIds => stored[s] = <<path[s[1]], number[s[1]]>>

\* The spans that thread t holds.
HeldBy(t) ==
  (IF thread[t].pc \in {"clear", "ensure", "wait"} THEN {thread[t].span} ELSE {})
    \cup thread[t].tree

\* Every span that ended is in the buffer, in the hands of a thread, stored, or was
\* given up openly; and none waits in the buffer for nothing: a root stays there only
\* until the export after a failed one.
SpansAreKept ==
  /\ ended \subseteq buffer \cup dropped \cup {s \in Spans : stored[s] # NoIds}
                       \cup UNION {HeldBy(t) : t \in Threads}
  /\ (\A t \in Threads : ~Inside(t)) /\ ~failed =>
       \A s \in buffer : ~IsRoot(s)

\* The same of an exporter that this process has used before: its lock exists.
KeptOnceStarted == ~fresh => SpansAreKept
=============================================================================
