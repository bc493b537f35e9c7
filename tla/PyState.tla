------------------------------- MODULE PyState -------------------------------
(***************************************************************************)
(* The Python object Tokenizer: Python threads that hold the interpreter   *)
(* lock (GIL) or have given it up, jobs of the blocking pool that never    *)
(* hold it but to deliver, and the reader-writer lock around the state.    *)
(*                                                                         *)
(* A call is a program of the steps between which another actor may run.   *)
(* The fields of the state hold opaque values; what a call has read is     *)
(* kept so that a mixture of two configurations is visible.                *)
(***************************************************************************)
EXTENDS Naturals, Sequences

CONSTANTS
  Threads,       \* Python threads
  Jobs,          \* slots of tokio's blocking pool
  Values,        \* values of the fields
  Offered,       \* names of the calls that threads make
  WritersFirst,  \* whether a waiting writer keeps new readers out
  None           \* nobody

ASSUME PyStateAssumption ==
  /\ Threads \cap Jobs = {}
  /\ None \notin Threads \cup Jobs
  /\ WritersFirst \in BOOLEAN

VARIABLES
  gil,      \* the thread or job that holds the interpreter lock
  readers,  \* who holds the lock for reading
  writer,   \* who holds it for writing
  state,    \* the fields of TokenizerState
  call      \* what each thread and job is doing

vars == <<gil, readers, writer, state, call>>

Actors == Threads \cup Jobs

Fields == {"post", "json", "trunc", "pad", "template", "renderer", "special"}

-----------------------------------------------------------------------------
(* Programs.  What a call does before it takes the lock (parsing its       *)
(* arguments, compiling a template) touches nothing shared, and is no step. *)

EncodeTakesFirst == << <<"give">>, <<"read">>, <<"get", "post">>,
                       <<"get", "trunc">>, <<"get", "pad">>, <<"take">>,
                       <<"drop">>, <<"return">> >>

\* py.allow_threads around a closure that takes the lock, and drops it before
\* the closure ends.
Encode == << <<"give">>, <<"read">>, <<"get", "post">>, <<"get", "trunc">>,
             <<"get", "pad">>, <<"drop">>, <<"take">>, <<"return">> >>

EncodeFails == << <<"give">>, <<"read">>, <<"drop">>, <<"take">>,
                  <<"return">> >>

\* The call returns an awaitable; a job of the pool does the work, without the
\* GIL, and delivers with it.
EncodeAsync == << <<"spawn", "encode_job">>, <<"return">> >>

EncodeJob == << <<"read">>, <<"get", "post">>, <<"get", "trunc">>,
                <<"get", "pad">>, <<"drop">>, <<"take">>, <<"return">> >>

DecodeAsync == << <<"spawn", "decode_job">>, <<"return">> >>

DecodeJob == << <<"read">>, <<"drop">>, <<"take">>, <<"return">> >>

\* Decoding, a step of a DecodeStream, the vocabulary, post_process.
Decode == << <<"read">>, <<"get", "post">>, <<"drop">>, <<"return">> >>

Getter == << <<"read">>, <<"get", "trunc">>, <<"drop">>, <<"return">> >>

\* A getter makes its dictionary while it holds the lock.  Up to CPython 3.11
\* that may run the garbage collector, and a finalizer written in Python, in
\* which threads take turns.
GetterCollects == << <<"read">>, <<"give">>, <<"take">>, <<"get", "trunc">>,
                     <<"drop">>, <<"return">> >>

RenderLooksAgain == << <<"read">>, <<"get", "template">>, <<"drop">>,
                       <<"give">>, <<"read">>, <<"get", "renderer">>,
                       <<"get", "special">>, <<"drop">>, <<"take">>,
                       <<"return">> >>

\* The template is resolved with the GIL held, and rendered without GIL and lock.
Render == << <<"read">>, <<"get", "template">>, <<"get", "renderer">>,
             <<"get", "special">>, <<"drop">>, <<"give">>, <<"take">>,
             <<"return">> >>

RenderGiven == << <<"read">>, <<"get", "special">>, <<"drop">>, <<"give">>,
                  <<"take">>, <<"return">> >>

RenderRejected == << <<"read">>, <<"get", "template">>, <<"drop">>,
                     <<"return">> >>

RenderAsync == << <<"read">>, <<"get", "template">>, <<"get", "renderer">>,
                  <<"get", "special">>, <<"drop">>, <<"spawn", "render_job">>,
                  <<"return">> >>

RenderJob == << <<"take">>, <<"return">> >>

SetTemplateUnlocksBetween ==
  << <<"write">>, <<"set", "template">>, <<"drop">>, <<"write">>,
     <<"set", "renderer">>, <<"drop">>, <<"return">> >>

\* The template has been compiled; if it cannot be, nothing is written.
SetTemplate == << <<"write">>, <<"set", "template">>, <<"set", "renderer">>,
                  <<"drop">>, <<"return">> >>

SetTemplateRejected == << <<"return">> >>

SetSpecial == << <<"write">>, <<"set", "special">>, <<"drop">>, <<"return">> >>

\* The processor is parsed under the lock, and before anything is assigned.
SetPost == << <<"write">>, <<"set", "post">>, <<"set", "json">>, <<"drop">>,
              <<"return">> >>

SetPostRejected == << <<"write">>, <<"drop">>, <<"return">> >>

SetTruncation == << <<"write">>, <<"set", "trunc">>, <<"drop">>,
                    <<"return">> >>

SetPadding == << <<"write">>, <<"set", "pad">>, <<"drop">>, <<"return">> >>

Program ==
  [encode |-> Encode, encode_fails |-> EncodeFails, encode_async |-> EncodeAsync,
   encode_job |-> EncodeJob, decode_async |-> DecodeAsync, decode_job |-> DecodeJob,
   decode |-> Decode, getter |-> Getter, getter_collects |-> GetterCollects,
   render |-> Render, render_given |-> RenderGiven, render_rejected |-> RenderRejected,
   render_async |-> RenderAsync, render_job |-> RenderJob,
   set_template |-> SetTemplate, set_template_rejected |-> SetTemplateRejected,
   set_special |-> SetSpecial, set_post |-> SetPost,
   set_post_rejected |-> SetPostRejected, set_truncation |-> SetTruncation,
   set_padding |-> SetPadding]

Jobbing == {"encode_job", "decode_job", "render_job"}

ASSUME OfferedAssumption == Offered \subseteq DOMAIN Program \ Jobbing

\* The calls that hand work to the pool.
Async == {"encode_async", "decode_async", "render_async"}

-----------------------------------------------------------------------------
(* Steps.                                                                  *)

\* arg is what a setter sets, seen what has been read under the lock.
Idle == [op |-> "idle", at |-> 0, arg |-> None, seen |-> <<>>]

InCall(a) == call[a].op # "idle"

\* What a does next.
Doing(a) == IF InCall(a) THEN Program[call[a].op][call[a].at] ELSE <<"rest">>

At(a, verb) == Doing(a)[1] = verb

Advanced(c) == [c EXCEPT !.at = @ + 1]

Step(a) == call' = [call EXCEPT ![a] = Advanced(@)]

Init ==
  /\ gil = None
  /\ readers = {}
  /\ writer = None
  /\ \E v \in Values : state = [f \in Fields |-> v]
  /\ call = [a \in Actors |-> Idle]

\* A thread runs Python and makes a call.
Begin(t) ==
  /\ ~ InCall(t)
  /\ gil = None
  /\ gil' = t
  /\ \E op \in Offered, v \in Values :
       /\ op \in Async => \E j \in Jobs : ~ InCall(j)
       /\ call' = [call EXCEPT ![t] = [op |-> op, at |-> 1, arg |-> v, seen |-> <<>>]]
  /\ UNCHANGED <<readers, writer, state>>

Spawn(t) ==
  /\ At(t, "spawn")
  /\ \E j \in Jobs :
       /\ ~ InCall(j)
       /\ call' = [call EXCEPT ![t] = Advanced(@),
                               ![j] = [op |-> Doing(t)[2], at |-> 1, arg |-> None,
                                       seen |-> <<>>]]
  /\ UNCHANGED <<gil, readers, writer, state>>

Give(a) ==
  /\ At(a, "give")
  /\ gil' = None
  /\ Step(a)
  /\ UNCHANGED <<readers, writer, state>>

Take(a) ==
  /\ At(a, "take")
  /\ gil = None
  /\ gil' = a
  /\ Step(a)
  /\ UNCHANGED <<readers, writer, state>>

Read(a) ==
  /\ At(a, "read")
  /\ writer = None
  /\ WritersFirst => \A b \in Actors : ~ At(b, "write")
  /\ readers' = readers \cup {a}
  /\ Step(a)
  /\ UNCHANGED <<gil, writer, state>>

WriteBesideReaders(a) ==
  /\ At(a, "write")
  /\ writer = None
  /\ writer' = a
  /\ Step(a)
  /\ UNCHANGED <<gil, readers, state>>

Write(a) ==
  /\ At(a, "write")
  /\ writer = None /\ readers = {}
  /\ writer' = a
  /\ Step(a)
  /\ UNCHANGED <<gil, readers, state>>

Get(a) ==
  /\ At(a, "get")
  /\ LET f == Doing(a)[2]
         c == call[a]
     IN  call' = [call EXCEPT ![a] =
                    [Advanced(c) EXCEPT !.seen =
                       [g \in (DOMAIN c.seen) \cup {f} |->
                          IF g = f THEN state[f] ELSE c.seen[g]]]]
  /\ UNCHANGED <<gil, readers, writer, state>>

Set(a) ==
  /\ At(a, "set")
  /\ state' = [state EXCEPT ![Doing(a)[2]] = call[a].arg]
  /\ Step(a)
  /\ UNCHANGED <<gil, readers, writer>>

\* A reader that has done tries again.
DropRetries(a) ==
  /\ At(a, "drop")
  /\ readers' = readers \ {a}
  /\ writer' = IF writer = a THEN None ELSE writer
  /\ \/ Step(a)
     \/ /\ a \in readers
        /\ \E i \in 1..call[a].at :
             /\ Program[call[a].op][i][1] = "read"
             /\ call' = [call EXCEPT ![a].at = i]
  /\ UNCHANGED <<gil, state>>

Drop(a) ==
  /\ At(a, "drop")
  /\ readers' = readers \ {a}
  /\ writer' = IF writer = a THEN None ELSE writer
  /\ Step(a)
  /\ UNCHANGED <<gil, state>>

\* Back in Python, which may give way to another thread.
Return(a) ==
  /\ At(a, "return")
  /\ gil' = None
  /\ call' = [call EXCEPT ![a] = Idle]
  /\ UNCHANGED <<readers, writer, state>>

Next ==
  \/ \E t \in Threads : Begin(t) \/ Spawn(t)
  \/ \E a \in Actors : \/ Give(a) \/ Take(a) \/ Read(a) \/ Write(a)
                       \/ Get(a) \/ Set(a) \/ Drop(a) \/ Return(a)

Spec == Init /\ [][Next]_vars

\* An actor that can go on goes on.  The interpreter hands the GIL to whoever
\* asks, in the end; a reader gets in between two writers, in the end.
Fairness ==
  /\ \A t \in Threads : WF_vars(Spawn(t))
  /\ \A a \in Actors :
       /\ WF_vars(Give(a) \/ Write(a) \/ Get(a) \/ Set(a) \/ Drop(a) \/ Return(a))
       /\ SF_vars(Take(a))
       /\ SF_vars(Read(a))

FairSpec == Spec /\ Fairness

-----------------------------------------------------------------------------
(* Properties.                                                             *)

\* Types; only one holds the lock for writing, and then nobody for reading.
TypeOK ==
  /\ gil \in Actors \cup {None}
  /\ readers \subseteq Actors
  /\ writer \in Actors \cup {None}
  /\ state \in [Fields -> Values]
  /\ \A a \in Actors :
       InCall(a) => /\ call[a].op \in DOMAIN Program
                    /\ call[a].at \in 1..Len(Program[call[a].op])
                    /\ call[a].arg \in Values \cup {None}
                    /\ DOMAIN call[a].seen \subseteq Fields
  /\ writer # None => readers = {}

\* Nobody waits for the GIL while holding the lock: else a setter that holds the
\* GIL and waits for the lock would wait forever (PyTokenizer::read and write,
\* and every closure under allow_threads).
WaitsItsTurn ==
  \A a \in Actors : a \in readers \/ a = writer => ~ At(a, "take")

\* What a call has read so far under the lock is all of one configuration: its
\* post-processor, truncation and padding, or its template, renderer and
\* special tokens.
Snapshot ==
  \A a \in readers : \A f \in DOMAIN call[a].seen : call[a].seen[f] = state[f]

\* Whenever nobody writes, the template is the one the renderer was compiled
\* from and the JSON is that of the post-processor in use, also after a setter
\* was refused.
Agreement ==
  writer = None => /\ state["template"] = state["renderer"]
                   /\ state["post"] = state["json"]

\* Every call returns and every awaitable is resolved, whoever else calls.
Returns == \A a \in Actors : InCall(a) ~> ~ InCall(a)
=============================================================================
