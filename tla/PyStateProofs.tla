---------------------------- MODULE PyStateProofs ----------------------------
(***************************************************************************)
(* The methods of the Python object keep to a discipline of the lock, and  *)
(* whatever keeps to it never waits for the GIL while it holds the lock,   *)
(* and never reads a mixture of two configurations.                        *)
(***************************************************************************)
EXTENDS PyState, TLAPS

Ops == DOMAIN Program

\* The positions of a program at which the lock is held, for reading.
Reading ==
  [encode |-> 3..6, encode_fails |-> 3..3, encode_async |-> {},
   encode_job |-> 2..5, decode_async |-> {}, decode_job |-> 2..2,
   decode |-> 2..3, getter |-> 2..3, getter_collects |-> 2..5,
   render |-> 2..5, render_given |-> 2..3, render_rejected |-> 2..3,
   render_async |-> 2..5, render_job |-> {},
   set_template |-> {}, set_template_rejected |-> {},
   set_special |-> {}, set_post |-> {}, set_post_rejected |-> {},
   set_truncation |-> {}, set_padding |-> {}]

\* The same for writing.
Writing ==
  [encode |-> {}, encode_fails |-> {}, encode_async |-> {},
   encode_job |-> {}, decode_async |-> {}, decode_job |-> {},
   decode |-> {}, getter |-> {}, getter_collects |-> {},
   render |-> {}, render_given |-> {}, render_rejected |-> {},
   render_async |-> {}, render_job |-> {},
   set_template |-> 2..4, set_template_rejected |-> {},
   set_special |-> 2..3, set_post |-> 2..4, set_post_rejected |-> 2..2,
   set_truncation |-> 2..3, set_padding |-> 2..3]

\* What step i of a program means for one who holds the lock at R for reading and
\* at W for writing.
Keeps(p, R, W, i) ==
  LET verb == p[i][1]
      same == (i \in R <=> i + 1 \in R) /\ (i \in W <=> i + 1 \in W)
  IN  \/ /\ verb = "read"
         /\ i \notin R /\ i \notin W /\ i + 1 \in R /\ i + 1 \notin W
         /\ \A j \in R : i < j
         /\ i < Len(p)
      \/ /\ verb = "write"
         /\ i \notin R /\ i \notin W /\ i + 1 \notin R /\ i + 1 \in W
         /\ i < Len(p)
      \/ verb = "drop" /\ i + 1 \notin R /\ i + 1 \notin W /\ i < Len(p)
      \/ verb = "get" /\ p[i][2] \in Fields /\ i \in R /\ same /\ i < Len(p)
      \/ verb = "set" /\ p[i][2] \in Fields /\ i \in W /\ same /\ i < Len(p)
      \/ verb = "spawn" /\ p[i][2] \in Jobbing /\ same /\ i < Len(p)
      \/ verb \in {"give", "take"} /\ same /\ i < Len(p)
      \/ verb = "return" /\ i \notin R /\ i \notin W

Disciplined(p, R, W) ==
  /\ Len(p) \in Nat \ {0}
  /\ 1 \notin R /\ 1 \notin W
  /\ \A i \in 1..Len(p) : Keeps(p, R, W, i)

\* The GIL is not asked for while the lock is held.
Yields(p, R, W) ==
  \A i \in 1..Len(p) : p[i][1] = "take" => i \notin R /\ i \notin W

LEMMA Positions ==
  /\ \A i \in 1..1 : i = 1
  /\ \A i \in 1..2 : i = 1 \/ i = 2
  /\ \A i \in 1..3 : i = 1 \/ i = 2 \/ i = 3
  /\ \A i \in 1..4 : i = 1 \/ i = 2 \/ i = 3 \/ i = 4
  /\ \A i \in 1..5 : i = 1 \/ i = 2 \/ i = 3 \/ i = 4 \/ i = 5
  /\ \A i \in 1..6 : i = 1 \/ i = 2 \/ i = 3 \/ i = 4 \/ i = 5 \/ i = 6
  /\ \A i \in 1..7 : i = 1 \/ i = 2 \/ i = 3 \/ i = 4 \/ i = 5 \/ i = 6 \/ i = 7
  /\ \A i \in 1..8 : \/ i = 1 \/ i = 2 \/ i = 3 \/ i = 4
                     \/ i = 5 \/ i = 6 \/ i = 7 \/ i = 8
  OBVIOUS

LEMMA OpsAre ==
  Ops =
      {"encode", "encode_fails", "encode_async", "encode_job", "decode_async",
       "decode_job", "decode", "getter", "getter_collects", "render",
       "render_given", "render_rejected", "render_async", "render_job",
       "set_template", "set_template_rejected", "set_special", "set_post",
       "set_post_rejected", "set_truncation", "set_padding"}
  BY DEF Ops, Program

\* Every method keeps to the discipline.
LEMMA Discipline ==
  \A op \in Ops : Disciplined(Program[op], Reading[op], Writing[op])
<1>1. Disciplined(Program["encode"], Reading["encode"], Writing["encode"])
  BY Positions DEF Program, Reading, Writing, Encode, Disciplined, Keeps, Fields, Jobbing
<1>2. Disciplined(Program["encode_fails"], Reading["encode_fails"], Writing["encode_fails"])
  BY Positions DEF Program, Reading, Writing, EncodeFails, Disciplined, Keeps, Fields, Jobbing
<1>3. Disciplined(Program["encode_async"], Reading["encode_async"], Writing["encode_async"])
  BY Positions DEF Program, Reading, Writing, EncodeAsync, Disciplined, Keeps, Fields, Jobbing
<1>4. Disciplined(Program["encode_job"], Reading["encode_job"], Writing["encode_job"])
  BY Positions DEF Program, Reading, Writing, EncodeJob, Disciplined, Keeps, Fields, Jobbing
<1>5. Disciplined(Program["decode_async"], Reading["decode_async"], Writing["decode_async"])
  BY Positions DEF Program, Reading, Writing, DecodeAsync, Disciplined, Keeps, Fields, Jobbing
<1>6. Disciplined(Program["decode_job"], Reading["decode_job"], Writing["decode_job"])
  BY Positions DEF Program, Reading, Writing, DecodeJob, Disciplined, Keeps, Fields, Jobbing
<1>7. Disciplined(Program["decode"], Reading["decode"], Writing["decode"])
  BY Positions DEF Program, Reading, Writing, Decode, Disciplined, Keeps, Fields, Jobbing
<1>8. Disciplined(Program["getter"], Reading["getter"], Writing["getter"])
  BY Positions DEF Program, Reading, Writing, Getter, Disciplined, Keeps, Fields, Jobbing
<1>9. Disciplined(Program["getter_collects"], Reading["getter_collects"], Writing["getter_collects"])
  BY Positions DEF Program, Reading, Writing, GetterCollects, Disciplined, Keeps, Fields, Jobbing
<1>10. Disciplined(Program["render"], Reading["render"], Writing["render"])
  BY Positions DEF Program, Reading, Writing, Render, Disciplined, Keeps, Fields, Jobbing
<1>11. Disciplined(Program["render_given"], Reading["render_given"], Writing["render_given"])
  BY Positions DEF Program, Reading, Writing, RenderGiven, Disciplined, Keeps, Fields, Jobbing
<1>12. Disciplined(Program["render_rejected"], Reading["render_rejected"], Writing["render_rejected"])
  BY Positions DEF Program, Reading, Writing, RenderRejected, Disciplined, Keeps, Fields, Jobbing
<1>13. Disciplined(Program["render_async"], Reading["render_async"], Writing["render_async"])
  BY Positions DEF Program, Reading, Writing, RenderAsync, Disciplined, Keeps, Fields, Jobbing
<1>14. Disciplined(Program["render_job"], Reading["render_job"], Writing["render_job"])
  BY Positions DEF Program, Reading, Writing, RenderJob, Disciplined, Keeps, Fields, Jobbing
<1>15. Disciplined(Program["set_template"], Reading["set_template"], Writing["set_template"])
  BY Positions DEF Program, Reading, Writing, SetTemplate, Disciplined, Keeps, Fields, Jobbing
<1>16. Disciplined(Program["set_template_rejected"], Reading["set_template_rejected"], Writing["set_template_rejected"])
  BY Positions DEF Program, Reading, Writing, SetTemplateRejected, Disciplined, Keeps, Fields, Jobbing
<1>17. Disciplined(Program["set_special"], Reading["set_special"], Writing["set_special"])
  BY Positions DEF Program, Reading, Writing, SetSpecial, Disciplined, Keeps, Fields, Jobbing
<1>18. Disciplined(Program["set_post"], Reading["set_post"], Writing["set_post"])
  BY Positions DEF Program, Reading, Writing, SetPost, Disciplined, Keeps, Fields, Jobbing
<1>19. Disciplined(Program["set_post_rejected"], Reading["set_post_rejected"], Writing["set_post_rejected"])
  BY Positions DEF Program, Reading, Writing, SetPostRejected, Disciplined, Keeps, Fields, Jobbing
<1>20. Disciplined(Program["set_truncation"], Reading["set_truncation"], Writing["set_truncation"])
  BY Positions DEF Program, Reading, Writing, SetTruncation, Disciplined, Keeps, Fields, Jobbing
<1>21. Disciplined(Program["set_padding"], Reading["set_padding"], Writing["set_padding"])
  BY Positions DEF Program, Reading, Writing, SetPadding, Disciplined, Keeps, Fields, Jobbing
<1> QED
  BY OpsAre, <1>1, <1>2, <1>3, <1>4, <1>5, <1>6, <1>7, <1>8, <1>9, <1>10, <1>11, <1>12, <1>13, <1>14, <1>15, <1>16, <1>17, <1>18, <1>19, <1>20, <1>21

\* Only a getter gives the GIL away in the middle.
LEMMA Yielding ==
  \A op \in Ops \ {"getter_collects"} : Yields(Program[op], Reading[op], Writing[op])
<1>1. Yields(Program["encode"], Reading["encode"], Writing["encode"])
  BY Positions DEF Program, Reading, Writing, Encode, Yields
<1>2. Yields(Program["encode_fails"], Reading["encode_fails"], Writing["encode_fails"])
  BY Positions DEF Program, Reading, Writing, EncodeFails, Yields
<1>3. Yields(Program["encode_async"], Reading["encode_async"], Writing["encode_async"])
  BY Positions DEF Program, Reading, Writing, EncodeAsync, Yields
<1>4. Yields(Program["encode_job"], Reading["encode_job"], Writing["encode_job"])
  BY Positions DEF Program, Reading, Writing, EncodeJob, Yields
<1>5. Yields(Program["decode_async"], Reading["decode_async"], Writing["decode_async"])
  BY Positions DEF Program, Reading, Writing, DecodeAsync, Yields
<1>6. Yields(Program["decode_job"], Reading["decode_job"], Writing["decode_job"])
  BY Positions DEF Program, Reading, Writing, DecodeJob, Yields
<1>7. Yields(Program["decode"], Reading["decode"], Writing["decode"])
  BY Positions DEF Program, Reading, Writing, Decode, Yields
<1>8. Yields(Program["getter"], Reading["getter"], Writing["getter"])
  BY Positions DEF Program, Reading, Writing, Getter, Yields
<1>9. Yields(Program["render"], Reading["render"], Writing["render"])
  BY Positions DEF Program, Reading, Writing, Render, Yields
<1>10. Yields(Program["render_given"], Reading["render_given"], Writing["render_given"])
  BY Positions DEF Program, Reading, Writing, RenderGiven, Yields
<1>11. Yields(Program["render_rejected"], Reading["render_rejected"], Writing["render_rejected"])
  BY Positions DEF Program, Reading, Writing, RenderRejected, Yields
<1>12. Yields(Program["render_async"], Reading["render_async"], Writing["render_async"])
  BY Positions DEF Program, Reading, Writing, RenderAsync, Yields
<1>13. Yields(Program["render_job"], Reading["render_job"], Writing["render_job"])
  BY Positions DEF Program, Reading, Writing, RenderJob, Yields
<1>14. Yields(Program["set_template"], Reading["set_template"], Writing["set_template"])
  BY Positions DEF Program, Reading, Writing, SetTemplate, Yields
<1>15. Yields(Program["set_template_rejected"], Reading["set_template_rejected"], Writing["set_template_rejected"])
  BY Positions DEF Program, Reading, Writing, SetTemplateRejected, Yields
<1>16. Yields(Program["set_special"], Reading["set_special"], Writing["set_special"])
  BY Positions DEF Program, Reading, Writing, SetSpecial, Yields
<1>17. Yields(Program["set_post"], Reading["set_post"], Writing["set_post"])
  BY Positions DEF Program, Reading, Writing, SetPost, Yields
<1>18. Yields(Program["set_post_rejected"], Reading["set_post_rejected"], Writing["set_post_rejected"])
  BY Positions DEF Program, Reading, Writing, SetPostRejected, Yields
<1>19. Yields(Program["set_truncation"], Reading["set_truncation"], Writing["set_truncation"])
  BY Positions DEF Program, Reading, Writing, SetTruncation, Yields
<1>20. Yields(Program["set_padding"], Reading["set_padding"], Writing["set_padding"])
  BY Positions DEF Program, Reading, Writing, SetPadding, Yields
<1> QED
  BY OpsAre, <1>1, <1>2, <1>3, <1>4, <1>5, <1>6, <1>7, <1>8, <1>9, <1>10, <1>11, <1>12, <1>13, <1>14, <1>15, <1>16, <1>17, <1>18, <1>19, <1>20

(* ------------------------- The invariant --------------------------------- *)

Seen == UNION {[D -> Values] : D \in SUBSET Fields}

Calls == [op : Ops \cup {"idle"}, at : Nat, arg : Values \cup {None}, seen : Seen]

Inside(a, part) == InCall(a) /\ call[a].at \in part[call[a].op]

Typed ==
  /\ gil \in Actors \cup {None}
  /\ readers \subseteq Actors
  /\ writer \in Actors \cup {None}
  /\ state \in [Fields -> Values]
  /\ call \in [Actors -> Calls]

\* A call is at a step of its program, which only jobs of the pool run without an
\* argument.
Placed(a) ==
  InCall(a) => /\ call[a].at \in 1..Len(Program[call[a].op])
               /\ call[a].op \in Offered \cup Jobbing
               /\ call[a].op \in Offered => call[a].arg \in Values

\* The lock is held by those whose step says so, and nothing has been read before
\* it is taken.
Held(a) ==
  /\ a \in readers <=> Inside(a, Reading)
  /\ writer = a <=> Inside(a, Writing)
  /\ InCall(a) /\ DOMAIN call[a].seen # {} =>
       \E j \in Reading[call[a].op] : j < call[a].at

IInv ==
  /\ Typed
  /\ \A a \in Actors : Placed(a) /\ Held(a)
  /\ writer # None => readers = {}
  /\ Snapshot

LEMMA EmptySeen == <<>> \in Seen /\ DOMAIN <<>> = {}
<1>1. <<>> = [f \in {} |-> None]
  OBVIOUS
<1>2. <<>> \in [{} -> Values]
  BY <1>1
<1> QED
  BY <1>1, <1>2 DEF Seen

LEMMA InitHolds == Init => IInv
<1> SUFFICES ASSUME Init PROVE IInv
  OBVIOUS
<1>1. Idle \in Calls
  BY EmptySeen DEF Idle, Calls
<1>2. Typed
  BY <1>1 DEF Init, Typed
<1>3. \A a \in Actors : call[a] = Idle /\ ~ InCall(a)
  BY DEF Init, InCall, Idle
<1>4. \A a \in Actors : writer # a
  BY PyStateAssumption DEF Init, Actors
<1> QED
  BY <1>2, <1>3, <1>4 DEF Init, IInv, Placed, Held, Inside, Snapshot

\* What the discipline says of the step of a.
LEMMA Here ==
  ASSUME IInv, NEW a \in Actors, InCall(a)
  PROVE  /\ call[a].op \in Ops /\ call[a].at \in Nat
         /\ Doing(a) = Program[call[a].op][call[a].at]
         /\ Keeps(Program[call[a].op], Reading[call[a].op], Writing[call[a].op], call[a].at)
         /\ Len(Program[call[a].op]) \in Nat
<1>1. call[a].op \in Ops /\ call[a].at \in Nat
  BY DEF IInv, Typed, Calls, InCall
<1>2. call[a].at \in 1..Len(Program[call[a].op])
  BY DEF IInv, Placed
<1>3. Disciplined(Program[call[a].op], Reading[call[a].op], Writing[call[a].op])
  BY <1>1, Discipline
<1> QED
  BY <1>1, <1>2, <1>3 DEF Disciplined, Doing

\* Only the last step returns.
LEMMA Onward ==
  ASSUME IInv, NEW a \in Actors, InCall(a), ~ At(a, "return")
  PROVE  call[a].at + 1 \in 1..Len(Program[call[a].op])
<1> DEFINE p == Program[call[a].op]
           R == Reading[call[a].op]
           W == Writing[call[a].op]
           i == call[a].at
<1>1. Keeps(p, R, W, i) /\ i \in Nat /\ Len(p) \in Nat /\ Doing(a) = p[i]
  BY Here
<1>2. p[i][1] # "return"
  BY <1>1 DEF At
<1> HIDE DEF p, R, W, i
<1>3. i < Len(p)
  BY <1>1, <1>2 DEF Keeps
<1>4. i + 1 \in 1..Len(p)
  BY <1>1, <1>3
<1> QED
  BY <1>4 DEF p, i

\* Whose step is not to rest is in a call.
LEMMA Busy ==
  ASSUME NEW a, NEW v, v # "rest", At(a, v)
  PROVE  InCall(a)
  BY DEF At, Doing

\* A step moves one call to its next step.
LEMMA Moved ==
  ASSUME IInv, NEW a \in Actors, InCall(a), ~ At(a, "return"), Step(a)
  PROVE  /\ call' \in [Actors -> Calls]
         /\ \A b \in Actors \ {a} : call'[b] = call[b]
         /\ call'[a].op = call[a].op /\ call'[a].at = call[a].at + 1
         /\ call'[a].arg = call[a].arg /\ call'[a].seen = call[a].seen
         /\ \A b \in Actors : Placed(b)'
<1>1. call[a] \in Calls /\ call \in [Actors -> Calls]
  BY DEF IInv, Typed
<1>2. Advanced(call[a]) = [op |-> call[a].op, at |-> call[a].at + 1,
                           arg |-> call[a].arg, seen |-> call[a].seen]
  BY <1>1 DEF Advanced, Calls
<1>3. call'[a] = Advanced(call[a]) /\ \A b \in Actors \ {a} : call'[b] = call[b]
  BY <1>1 DEF Step
<1>4. Advanced(call[a]) \in Calls
  BY <1>1, <1>2 DEF Calls
<1>5. call' \in [Actors -> Calls]
  BY <1>1, <1>4 DEF Step
<1>6. call[a].at + 1 \in 1..Len(Program[call[a].op])
  BY Onward
<1>7. \A b \in Actors : Placed(b)
  BY DEF IInv
<1>8. \A b \in Actors : Placed(b)'
  BY <1>2, <1>3, <1>6, <1>7 DEF Placed, InCall
<1> QED
  BY <1>2, <1>3, <1>5, <1>8

\* A step at which the lock does not change hands.
LEMMA HeldStays ==
  ASSUME IInv, NEW a \in Actors, InCall(a), ~ At(a, "return"),
         readers' = readers, writer' = writer,
         call'[a].op = call[a].op, call'[a].at = call[a].at + 1,
         call[a].at \in Reading[call[a].op] <=> call[a].at + 1 \in Reading[call[a].op],
         call[a].at \in Writing[call[a].op] <=> call[a].at + 1 \in Writing[call[a].op],
         DOMAIN call'[a].seen # {} =>
            \/ DOMAIN call[a].seen # {}
            \/ call[a].at \in Reading[call[a].op],
         \A b \in Actors \ {a} : call'[b] = call[b]
  PROVE  \A b \in Actors : Held(b)'
<1>1. \A b \in Actors : Held(b)
  BY DEF IInv
<1>2. \A b \in Actors \ {a} : Held(b)'
  BY <1>1 DEF Held, Inside, InCall
<1>3. call[a].at \in Nat /\ call[a].op \in Ops
  BY Here
<1>4. \A j \in Reading[call[a].op] : j < call[a].at => j < call[a].at + 1
  <2>1. Reading[call[a].op] \subseteq Nat
    BY <1>3, OpsAre DEF Reading
  <2> QED
    BY <1>3, <2>1
<1>5. InCall(a)'
  BY DEF InCall
<1>6. Held(a)
  BY <1>1
<1>7. (a \in readers <=> Inside(a, Reading))' /\ (writer = a <=> Inside(a, Writing))'
  BY <1>5, <1>6 DEF Held, Inside
<1>8. DOMAIN call'[a].seen # {} => \E j \in Reading[call[a].op] : j < call[a].at + 1
  BY <1>3, <1>4, <1>6 DEF Held
<1> QED
  BY <1>2, <1>5, <1>7, <1>8 DEF Held

LEMMA Same ==
  ASSUME IInv, NEW a \in Actors, InCall(a),
         At(a, "give") \/ At(a, "take") \/ At(a, "get") \/ At(a, "set") \/ At(a, "spawn")
  PROVE  /\ call[a].at \in Reading[call[a].op] <=> call[a].at + 1 \in Reading[call[a].op]
         /\ call[a].at \in Writing[call[a].op] <=> call[a].at + 1 \in Writing[call[a].op]
         /\ ~ At(a, "return")
  BY Here DEF Keeps, At

(* --------------------------- The actions --------------------------------- *)

LEMMA GiveTakeHolds ==
  ASSUME IInv, NEW a \in Actors, Give(a) \/ Take(a)
  PROVE  IInv'
<1>1. At(a, "give") \/ At(a, "take")
  BY DEF Give, Take
<1>2. InCall(a)
  BY <1>1, Busy
<1>3. Step(a) /\ UNCHANGED <<readers, writer, state>> /\ gil' \in Actors \cup {None}
  BY DEF Give, Take
<1>4. Typed' /\ \A b \in Actors : Placed(b)'
  BY <1>1, <1>2, <1>3, Moved, Same DEF IInv, Typed
<1>5. \A b \in Actors : Held(b)'
  BY <1>1, <1>2, <1>3, Moved, Same, HeldStays
<1>6. Snapshot'
  BY <1>1, <1>2, <1>3, Moved, Same DEF IInv, Snapshot, Typed
<1> QED
  BY <1>3, <1>4, <1>5, <1>6 DEF IInv

LEMMA ReadHolds ==
  ASSUME IInv, NEW a \in Actors, Read(a)
  PROVE  IInv'
<1>1. At(a, "read") /\ Step(a) /\ UNCHANGED <<gil, writer, state>>
  BY DEF Read
<1>2. InCall(a)
  BY <1>1, Busy
<1>3. readers' = readers \cup {a} /\ writer = None
  BY DEF Read
<1>4. /\ call[a].at \notin Reading[call[a].op]
      /\ call[a].at + 1 \in Reading[call[a].op]
      /\ call[a].at + 1 \notin Writing[call[a].op]
      /\ \A j \in Reading[call[a].op] : call[a].at < j
  BY <1>1, <1>2, Here DEF Keeps, At
<1>5. ~ At(a, "return")
  BY <1>1 DEF At
<1>6. Typed' /\ \A b \in Actors : Placed(b)'
  BY <1>1, <1>2, <1>3, <1>5, Moved DEF IInv, Typed
<1>7. DOMAIN call[a].seen = {}
  <2>1. ~ \E j \in Reading[call[a].op] : j < call[a].at
    <3>1. Reading[call[a].op] \subseteq Nat /\ call[a].at \in Nat
      BY <1>2, Here, OpsAre DEF Reading
    <3> QED
      BY <1>4, <3>1
  <2> QED
    BY <1>2, <2>1 DEF IInv, Held
<1>8. call'[a].op = call[a].op /\ call'[a].at = call[a].at + 1
      /\ call'[a].seen = call[a].seen /\ \A b \in Actors \ {a} : call'[b] = call[b]
  BY <1>1, <1>2, <1>5, Moved
<1>9. \A b \in Actors : Held(b)'
  <2>1. \A b \in Actors \ {a} : Held(b)'
    BY <1>1, <1>3, <1>8 DEF IInv, Held, Inside, InCall
  <2>2. writer # a
    BY <1>3, PyStateAssumption DEF Actors
  <2>3. Held(a)'
    BY <1>1, <1>2, <1>3, <1>4, <1>7, <1>8, <2>2 DEF Held, Inside, InCall
  <2> QED
    BY <2>1, <2>3
<1>10. Snapshot'
  BY <1>1, <1>3, <1>7, <1>8 DEF IInv, Snapshot, Typed
<1> QED
  BY <1>1, <1>3, <1>6, <1>9, <1>10 DEF IInv

LEMMA WriteHolds ==
  ASSUME IInv, NEW a \in Actors, Write(a)
  PROVE  IInv'
<1>1. At(a, "write") /\ Step(a) /\ UNCHANGED <<gil, readers, state>>
  BY DEF Write
<1>2. InCall(a)
  BY <1>1, Busy
<1>3. writer' = a /\ writer = None /\ readers = {}
  BY DEF Write
<1>4. /\ call[a].at + 1 \notin Reading[call[a].op]
      /\ call[a].at + 1 \in Writing[call[a].op]
      /\ call[a].at \notin Reading[call[a].op]
  BY <1>1, <1>2, Here DEF Keeps, At
<1>5. ~ At(a, "return")
  BY <1>1 DEF At
<1>6. Typed' /\ \A b \in Actors : Placed(b)'
  BY <1>1, <1>2, <1>3, <1>5, Moved DEF IInv, Typed
<1>7. call'[a].op = call[a].op /\ call'[a].at = call[a].at + 1
      /\ call'[a].seen = call[a].seen /\ \A b \in Actors \ {a} : call'[b] = call[b]
  BY <1>1, <1>2, <1>5, Moved
<1>8. \A b \in Actors : Held(b)'
  <2>1. \A b \in Actors \ {a} : Held(b)'
    BY <1>1, <1>3, <1>7, PyStateAssumption DEF IInv, Held, Inside, InCall, Actors
  <2>2. DOMAIN call[a].seen # {} => \E j \in Reading[call[a].op] : j < call[a].at + 1
    <3>1. Reading[call[a].op] \subseteq Nat /\ call[a].at \in Nat
      BY <1>2, Here, OpsAre DEF Reading
    <3> QED
      BY <1>2, <3>1 DEF IInv, Held
  <2>3. Held(a)'
    BY <1>1, <1>2, <1>3, <1>4, <1>7, <2>2 DEF Held, Inside, InCall
  <2> QED
    BY <2>1, <2>3
<1>9. Snapshot'
  BY <1>1, <1>3 DEF Snapshot
<1> QED
  BY <1>1, <1>3, <1>6, <1>8, <1>9 DEF IInv

LEMMA DropHolds ==
  ASSUME IInv, NEW a \in Actors, Drop(a)
  PROVE  IInv'
<1>1. At(a, "drop") /\ Step(a) /\ UNCHANGED <<gil, state>>
  BY DEF Drop
<1>2. InCall(a)
  BY <1>1, Busy
<1>3. readers' = readers \ {a} /\ writer' = IF writer = a THEN None ELSE writer
  BY DEF Drop
<1>4. /\ call[a].at + 1 \notin Reading[call[a].op]
      /\ call[a].at + 1 \notin Writing[call[a].op]
  BY <1>1, <1>2, Here DEF Keeps, At
<1>5. ~ At(a, "return")
  BY <1>1 DEF At
<1>6. Typed' /\ \A b \in Actors : Placed(b)'
  BY <1>1, <1>2, <1>3, <1>5, Moved DEF IInv, Typed
<1>7. call'[a].op = call[a].op /\ call'[a].at = call[a].at + 1
      /\ call'[a].seen = call[a].seen /\ \A b \in Actors \ {a} : call'[b] = call[b]
  BY <1>1, <1>2, <1>5, Moved
<1>8. \A b \in Actors : Held(b)'
  <2>1. \A b \in Actors \ {a} : Held(b)'
    BY <1>3, <1>7, PyStateAssumption DEF IInv, Held, Inside, InCall, Actors
  <2>2. DOMAIN call[a].seen # {} => \E j \in Reading[call[a].op] : j < call[a].at + 1
    <3>1. Reading[call[a].op] \subseteq Nat /\ call[a].at \in Nat
      BY <1>2, Here, OpsAre DEF Reading
    <3> QED
      BY <1>2, <3>1 DEF IInv, Held
  <2>3. a \notin readers' /\ writer' # a
    BY <1>3, PyStateAssumption DEF Actors
  <2>4. Held(a)'
    BY <1>2, <1>4, <1>7, <2>2, <2>3 DEF Held, Inside, InCall
  <2> QED
    BY <2>1, <2>4
<1>9. Snapshot'
  BY <1>1, <1>3, <1>7 DEF IInv, Snapshot, Typed
<1>10. (writer # None => readers = {})'
  BY <1>3 DEF IInv
<1> QED
  BY <1>6, <1>8, <1>9, <1>10 DEF IInv

LEMMA SetHolds ==
  ASSUME IInv, NEW a \in Actors, Set(a)
  PROVE  IInv'
<1>1. At(a, "set") /\ Step(a) /\ UNCHANGED <<gil, readers, writer>>
  BY DEF Set
<1>2. InCall(a)
  BY <1>1, Busy
<1>3. Doing(a)[2] \in Fields /\ call[a].at \in Writing[call[a].op]
  BY <1>1, <1>2, Here DEF Keeps, At
<1>4. writer = a /\ readers = {}
  BY <1>2, <1>3, PyStateAssumption DEF IInv, Held, Inside, Actors
<1>5. call[a].arg \in Values
  <2>1. call[a].op \notin Jobbing
    BY <1>2, <1>3 DEF Jobbing, Writing
  <2> QED
    BY <1>2, <2>1 DEF IInv, Placed
<1>6. state' \in [Fields -> Values]
  BY <1>3, <1>5 DEF Set, IInv, Typed
<1>7. Typed' /\ \A b \in Actors : Placed(b)'
  BY <1>1, <1>2, <1>6, Moved, Same DEF IInv, Typed
<1>8. \A b \in Actors : Held(b)'
  BY <1>1, <1>2, Moved, Same, HeldStays
<1>9. Snapshot'
  BY <1>1, <1>4 DEF Snapshot
<1> QED
  BY <1>1, <1>4, <1>7, <1>8, <1>9 DEF IInv

LEMMA GetHolds ==
  ASSUME IInv, NEW a \in Actors, Get(a)
  PROVE  IInv'
<1>1. At(a, "get") /\ UNCHANGED <<gil, readers, writer, state>>
  BY DEF Get
<1>2. InCall(a) /\ ~ At(a, "return")
  BY <1>1, Busy DEF At
<1> DEFINE f == Doing(a)[2]
           c == call[a]
           sight == [g \in (DOMAIN c.seen) \cup {f} |-> IF g = f THEN state[f] ELSE c.seen[g]]
           new == [op |-> c.op, at |-> c.at + 1, arg |-> c.arg, seen |-> sight]
<1>3. f \in Fields /\ c.at \in Reading[c.op]
  BY <1>1, <1>2, Here DEF Keeps, At
<1>4. c \in Calls /\ call \in [Actors -> Calls] /\ state \in [Fields -> Values]
  BY DEF IInv, Typed
<1>5. PICK D \in SUBSET Fields : c.seen \in [D -> Values]
  BY <1>4 DEF Calls, Seen
<1>6. sight \in Seen
  <2>1. sight \in [D \cup {f} -> Values]
    BY <1>3, <1>4, <1>5
  <2>2. D \cup {f} \in SUBSET Fields
    BY <1>3
  <2> QED
    BY <2>1, <2>2 DEF Seen
<1>7. [Advanced(c) EXCEPT !.seen = sight] = new
  <2>1. Advanced(c) = [op |-> c.op, at |-> c.at + 1, arg |-> c.arg, seen |-> c.seen]
    BY <1>4 DEF Advanced, Calls
  <2> HIDE DEF sight
  <2> QED
    BY <2>1
<1>8. call' = [call EXCEPT ![a] = new]
  BY <1>7 DEF Get
<1>9. /\ new \in Calls /\ call' \in [Actors -> Calls]
      /\ call'[a] = new /\ \A b \in Actors \ {a} : call'[b] = call[b]
  BY <1>4, <1>6, <1>8 DEF Calls
<1>10. Typed'
  BY <1>1, <1>9 DEF IInv, Typed
<1>11. new.op = c.op /\ new.at = c.at + 1 /\ new.arg = c.arg /\ new.seen = sight
  OBVIOUS
<1> HIDE DEF new
<1>12. \A b \in Actors : Placed(b)'
  <2>1. c.at + 1 \in 1..Len(Program[c.op])
    BY <1>2, Onward
  <2> QED
    BY <1>9, <1>11, <2>1 DEF IInv, Placed, InCall
<1> HIDE DEF sight
<1>13. \A b \in Actors : Held(b)'
  BY <1>1, <1>2, <1>3, <1>9, <1>11, Same, HeldStays
<1>14. Snapshot'
  <2>1. \A g \in DOMAIN sight : sight[g] = state[g]
    <3>1. a \in readers
      BY <1>2, <1>3 DEF IInv, Held, Inside
    <3>2. \A g \in DOMAIN c.seen : c.seen[g] = state[g]
      BY <3>1 DEF IInv, Snapshot
    <3> QED
      BY <3>2 DEF sight
  <2> QED
    BY <1>1, <1>9, <1>11, <2>1 DEF IInv, Snapshot, Typed
<1> QED
  BY <1>1, <1>10, <1>12, <1>13, <1>14 DEF IInv

LEMMA ReturnHolds ==
  ASSUME IInv, NEW a \in Actors, Return(a)
  PROVE  IInv'
<1>1. At(a, "return") /\ UNCHANGED <<readers, writer, state>> /\ gil' = None
  BY DEF Return
<1>2. InCall(a)
  BY <1>1, Busy
<1>3. call[a].at \notin Reading[call[a].op] /\ call[a].at \notin Writing[call[a].op]
  BY <1>1, <1>2, Here DEF Keeps, At
<1>4. call' = [call EXCEPT ![a] = Idle] /\ Idle \in Calls
  BY EmptySeen DEF Return, Idle, Calls
<1>5. call'[a] = Idle /\ \A b \in Actors \ {a} : call'[b] = call[b]
  BY <1>4 DEF IInv, Typed
<1>6. Typed'
  BY <1>1, <1>4 DEF IInv, Typed
<1>7. ~ InCall(a)'
  BY <1>5 DEF InCall, Idle
<1>8. \A b \in Actors : Placed(b)'
  BY <1>5, <1>7 DEF IInv, Placed, InCall
<1>9. \A b \in Actors : Held(b)'
  BY <1>1, <1>2, <1>3, <1>5, <1>7 DEF IInv, Held, Inside, InCall
<1>10. Snapshot'
  BY <1>1, <1>4, <1>5, EmptySeen DEF IInv, Snapshot, Typed, Idle
<1> QED
  BY <1>1, <1>6, <1>8, <1>9, <1>10 DEF IInv

LEMMA BeginHolds ==
  ASSUME IInv, NEW t \in Threads, Begin(t)
  PROVE  IInv'
<1>1. ~ InCall(t) /\ gil' = t /\ UNCHANGED <<readers, writer, state>> /\ t \in Actors
  BY DEF Begin, Actors
<1>2. PICK op \in Offered, v \in Values :
        call' = [call EXCEPT ![t] = [op |-> op, at |-> 1, arg |-> v, seen |-> <<>>]]
  BY DEF Begin
<1> DEFINE new == [op |-> op, at |-> 1, arg |-> v, seen |-> <<>>]
<1>3. op \in Ops \ Jobbing
  BY OfferedAssumption DEF Ops
<1>4. new \in Calls
  BY <1>3, EmptySeen DEF Calls
<1>5. call'[t] = new /\ (\A b \in Actors \ {t} : call'[b] = call[b]) /\ call' \in [Actors -> Calls]
  BY <1>1, <1>2, <1>4 DEF IInv, Typed
<1>6. Disciplined(Program[op], Reading[op], Writing[op]) /\ op # "idle"
  BY <1>3, Discipline, OpsAre
<1>7. Typed'
  BY <1>1, <1>5 DEF IInv, Typed
<1>8. \A b \in Actors : Placed(b)'
  BY <1>5, <1>6 DEF IInv, Placed, InCall, Disciplined
<1>9. \A b \in Actors : Held(b)'
  <2>1. ~ Inside(t, Reading)' /\ ~ Inside(t, Writing)'
    BY <1>5, <1>6 DEF Inside, Disciplined
  <2>2. t \notin readers /\ writer # t
    BY <1>1 DEF IInv, Held, Inside
  <2>3. Held(t)'
    BY <1>1, <1>5, <2>1, <2>2, EmptySeen DEF Held
  <2> QED
    BY <1>1, <1>5, <2>3 DEF IInv, Held, Inside, InCall
<1>10. Snapshot'
  BY <1>1, <1>5, EmptySeen DEF IInv, Snapshot, Typed
<1> QED
  BY <1>1, <1>7, <1>8, <1>9, <1>10 DEF IInv

LEMMA SpawnHolds ==
  ASSUME IInv, NEW t \in Threads, Spawn(t)
  PROVE  IInv'
<1>1. At(t, "spawn") /\ UNCHANGED <<gil, readers, writer, state>> /\ t \in Actors
  BY DEF Spawn, Actors
<1>2. InCall(t) /\ ~ At(t, "return")
  BY <1>1, Busy DEF At
<1>3. PICK j \in Jobs :
        /\ ~ InCall(j)
        /\ call' = [call EXCEPT ![t] = Advanced(@),
                                ![j] = [op |-> Doing(t)[2], at |-> 1, arg |-> None,
                                        seen |-> <<>>]]
  BY DEF Spawn
<1> DEFINE op == Doing(t)[2]
           new == [op |-> op, at |-> 1, arg |-> None, seen |-> <<>>]
<1>4. t # j /\ j \in Actors
  BY PyStateAssumption DEF Actors
<1>5. op \in Jobbing
  BY <1>1, <1>2, Here DEF Keeps, At
<1>6. op \in Ops /\ op # "idle" /\ op \notin Offered
  BY <1>5, OpsAre, OfferedAssumption DEF Jobbing
<1>7. new \in Calls
  BY <1>6, EmptySeen DEF Calls
<1>8. call[t] \in Calls /\ call \in [Actors -> Calls]
  BY <1>1 DEF IInv, Typed
<1>9. Advanced(call[t]) = [op |-> call[t].op, at |-> call[t].at + 1,
                           arg |-> call[t].arg, seen |-> call[t].seen]
  BY <1>8 DEF Advanced, Calls
<1>10. Advanced(call[t]) \in Calls
  BY <1>8, <1>9 DEF Calls
<1>11. /\ call' \in [Actors -> Calls]
       /\ call'[j] = new
       /\ call'[t] = Advanced(call[t])
       /\ \A b \in Actors \ {t, j} : call'[b] = call[b]
  BY <1>1, <1>3, <1>4, <1>7, <1>8, <1>10
<1>12. call'[t].op = call[t].op /\ call'[t].at = call[t].at + 1
       /\ call'[t].arg = call[t].arg /\ call'[t].seen = call[t].seen
  BY <1>9, <1>11
<1>13. Disciplined(Program[op], Reading[op], Writing[op])
  BY <1>6, Discipline
<1>14. Typed'
  BY <1>1, <1>11 DEF IInv, Typed
<1>15. \A b \in Actors : Placed(b)'
  <2>1. Placed(t)'
    <3>1. call[t].at + 1 \in 1..Len(Program[call[t].op])
      BY <1>1, <1>2, Onward
    <3>2. Placed(t)
      BY <1>1 DEF IInv
    <3> HIDE DEF op, new
    <3> QED
      BY <1>2, <1>12, <3>1, <3>2 DEF Placed, InCall
  <2>2. Placed(j)'
    BY <1>5, <1>6, <1>11, <1>13 DEF Placed, Disciplined
  <2> QED
    BY <1>11, <2>1, <2>2 DEF IInv, Placed, InCall
<1>16. \A b \in Actors : Held(b)'
  <2>1. Held(j)'
    <3>1. ~ Inside(j, Reading)' /\ ~ Inside(j, Writing)'
      BY <1>11, <1>13 DEF Inside, Disciplined
    <3>2. j \notin readers /\ writer # j
      BY <1>3, <1>4 DEF IInv, Held, Inside
    <3> QED
      BY <1>1, <1>11, <3>1, <3>2, EmptySeen DEF Held
  <2>2. Held(t)'
    <3>1. Reading[call[t].op] \subseteq Nat /\ call[t].at \in Nat
      BY <1>1, <1>2, Here, OpsAre DEF Reading
    <3>2. \A i \in Reading[call[t].op] : i < call[t].at => i < call[t].at + 1
      BY <3>1
    <3>3. Held(t)
      BY <1>1 DEF IInv
    <3>4. (t \in readers <=> Inside(t, Reading))' /\ (writer = t <=> Inside(t, Writing))'
      BY <1>1, <1>2, <1>12, <3>3, Same DEF Held, Inside, InCall
    <3> QED
      BY <1>2, <1>12, <3>2, <3>3, <3>4 DEF Held
  <2> QED
    BY <1>1, <1>11, <2>1, <2>2 DEF IInv, Held, Inside, InCall
<1>17. Snapshot'
  BY <1>1, <1>11, <1>12, EmptySeen DEF IInv, Snapshot, Typed
<1> QED
  BY <1>1, <1>14, <1>15, <1>16, <1>17 DEF IInv

LEMMA StepHolds == IInv /\ [Next]_vars => IInv'
<1> SUFFICES ASSUME IInv, [Next]_vars PROVE IInv'
  OBVIOUS
<1>1. ASSUME NEW t \in Threads, Begin(t) PROVE IInv'
  BY <1>1, BeginHolds
<1>2. ASSUME NEW t \in Threads, Spawn(t) PROVE IInv'
  BY <1>2, SpawnHolds
<1>3. ASSUME NEW a \in Actors, Give(a) \/ Take(a) PROVE IInv'
  BY <1>3, GiveTakeHolds
<1>4. ASSUME NEW a \in Actors, Read(a) PROVE IInv'
  BY <1>4, ReadHolds
<1>5. ASSUME NEW a \in Actors, Write(a) PROVE IInv'
  BY <1>5, WriteHolds
<1>6. ASSUME NEW a \in Actors, Get(a) PROVE IInv'
  BY <1>6, GetHolds
<1>7. ASSUME NEW a \in Actors, Set(a) PROVE IInv'
  BY <1>7, SetHolds
<1>8. ASSUME NEW a \in Actors, Drop(a) PROVE IInv'
  BY <1>8, DropHolds
<1>9. ASSUME NEW a \in Actors, Return(a) PROVE IInv'
  BY <1>9, ReturnHolds
<1>10. ASSUME UNCHANGED vars PROVE IInv'
  BY <1>10 DEF IInv, Typed, Placed, Held, Inside, InCall, Snapshot, vars
<1> QED
  BY <1>1, <1>2, <1>3, <1>4, <1>5, <1>6, <1>7, <1>8, <1>9, <1>10 DEF Next

\* Threads, jobs and the lock are in the places their programs say, and what is
\* read under the lock is of one configuration.
THEOREM Invariance == Spec => []IInv
<1>1. Init => IInv
  BY InitHolds
<1>2. IInv /\ [Next]_vars => IInv'
  BY StepHolds
<1> QED
  BY <1>1, <1>2, PTL DEF Spec

\* Types, and that a writer excludes readers.
THEOREM TypesHold == Spec => []TypeOK
<1>1. IInv => TypeOK
  <2> SUFFICES ASSUME IInv PROVE TypeOK
    OBVIOUS
  <2>1. ASSUME NEW a \in Actors, InCall(a)
        PROVE  /\ call[a].op \in Ops
               /\ call[a].at \in 1..Len(Program[call[a].op])
               /\ call[a].arg \in Values \cup {None}
               /\ DOMAIN call[a].seen \subseteq Fields
    BY <2>1 DEF IInv, Typed, Placed, Calls, InCall, Seen
  <2> QED
    BY <2>1 DEF IInv, Typed, TypeOK, Ops
<1> QED
  BY <1>1, Invariance, PTL

\* Encoding, also on the pool, and rendering never mix two configurations
\* (PyTokenizer::encode, async_encode_batch, prepare_chat_template_call).
THEOREM NeverMixed == Spec => []Snapshot
<1>1. IInv => Snapshot
  BY DEF IInv
<1> QED
  BY <1>1, Invariance, PTL

\* If no getter's dictionary makes the collector run Python, nobody waits for the
\* GIL while holding the lock.
THEOREM NeverWaitsHolding ==
  ASSUME "getter_collects" \notin Offered
  PROVE  Spec => []WaitsItsTurn
<1>1. IInv => WaitsItsTurn
  <2> SUFFICES ASSUME IInv, NEW a \in Actors, At(a, "take"), a \in readers \/ a = writer
               PROVE  FALSE
    BY DEF WaitsItsTurn
  <2>1. InCall(a)
    BY Busy
  <2>2. call[a].op \in Ops \ {"getter_collects"}
    BY <2>1, Here DEF IInv, Placed, Jobbing
  <2>3. Yields(Program[call[a].op], Reading[call[a].op], Writing[call[a].op])
    BY <2>2, Yielding
  <2>4. call[a].at \in 1..Len(Program[call[a].op]) /\ Doing(a)[1] = "take"
        /\ Doing(a) = Program[call[a].op][call[a].at]
    BY <2>1, Here DEF IInv, Placed, At
  <2>5. call[a].at \in Reading[call[a].op] \/ call[a].at \in Writing[call[a].op]
    BY DEF IInv, Held, Inside
  <2> QED
    BY <2>3, <2>4, <2>5 DEF Yields
<1> QED
  BY <1>1, Invariance, PTL

(* ------------------- Fields that are set in pairs ------------------------ *)

\* op sets first in its second step and second in its third, and no other step of
\* any program sets either.
Couples(op, first, second) ==
  \A o \in Ops : \A i \in 1..Len(Program[o]) :
    LET step == Program[o][i]
    IN  /\ step[1] = "set" /\ step[2] = first  => o = op /\ i = 2
        /\ step[1] = "set" /\ step[2] = second => o = op /\ i = 3
        /\ o = op /\ (i = 2 \/ i = 3) => step[1] = "set"
        /\ o = op /\ i = 2 => step[2] = first
        /\ o = op /\ i = 3 => step[2] = second
        /\ o = op /\ i = 1 => step[1] = "write"

\* Between the two, the first field is ahead of the second.
Between(a, op) == call[a].op = op /\ call[a].at = 3

InStep(op, first, second) ==
  /\ \A a \in Actors : Between(a, op) => state[first] = call[a].arg
  /\ state[first] = state[second] \/ \E a \in Actors : Between(a, op)

LEMMA Coupled ==
  /\ Couples("set_template", "template", "renderer")
  /\ Couples("set_post", "post", "json")
<1> DEFINE C(o) ==
      \A i \in 1..Len(Program[o]) :
        LET step == Program[o][i]
        IN  /\ step[1] = "set" /\ step[2] = "template" => o = "set_template" /\ i = 2
            /\ step[1] = "set" /\ step[2] = "renderer" => o = "set_template" /\ i = 3
            /\ step[1] = "set" /\ step[2] = "post" => o = "set_post" /\ i = 2
            /\ step[1] = "set" /\ step[2] = "json" => o = "set_post" /\ i = 3
            /\ o \in {"set_template", "set_post"} => (i = 1 => step[1] = "write")
            /\ o = "set_template" /\ i = 2 => step[1] = "set" /\ step[2] = "template"
            /\ o = "set_template" /\ i = 3 => step[1] = "set" /\ step[2] = "renderer"
            /\ o = "set_post" /\ i = 2 => step[1] = "set" /\ step[2] = "post"
            /\ o = "set_post" /\ i = 3 => step[1] = "set" /\ step[2] = "json"
<1>1. C("encode")
  BY Positions DEF Program, Encode
<1>2. C("encode_fails")
  BY Positions DEF Program, EncodeFails
<1>3. C("encode_async")
  BY Positions DEF Program, EncodeAsync
<1>4. C("encode_job")
  BY Positions DEF Program, EncodeJob
<1>5. C("decode_async")
  BY Positions DEF Program, DecodeAsync
<1>6. C("decode_job")
  BY Positions DEF Program, DecodeJob
<1>7. C("decode")
  BY Positions DEF Program, Decode
<1>8. C("getter")
  BY Positions DEF Program, Getter
<1>9. C("getter_collects")
  BY Positions DEF Program, GetterCollects
<1>10. C("render")
  BY Positions DEF Program, Render
<1>11. C("render_given")
  BY Positions DEF Program, RenderGiven
<1>12. C("render_rejected")
  BY Positions DEF Program, RenderRejected
<1>13. C("render_async")
  BY Positions DEF Program, RenderAsync
<1>14. C("render_job")
  BY Positions DEF Program, RenderJob
<1>15. C("set_template")
  BY Positions DEF Program, SetTemplate
<1>16. C("set_template_rejected")
  BY Positions DEF Program, SetTemplateRejected
<1>17. C("set_special")
  BY Positions DEF Program, SetSpecial
<1>18. C("set_post")
  BY Positions DEF Program, SetPost
<1>19. C("set_post_rejected")
  BY Positions DEF Program, SetPostRejected
<1>20. C("set_truncation")
  BY Positions DEF Program, SetTruncation
<1>21. C("set_padding")
  BY Positions DEF Program, SetPadding
<1>22. \A o \in Ops : C(o)
  <2> HIDE DEF C
  <2> QED
    BY OpsAre, <1>1, <1>2, <1>3, <1>4, <1>5, <1>6, <1>7, <1>8, <1>9, <1>10, <1>11, <1>12, <1>13, <1>14, <1>15, <1>16, <1>17, <1>18, <1>19, <1>20, <1>21
<1> QED
  BY <1>22 DEF Couples


LEMMA InStepHolds ==
  ASSUME NEW op \in Ops, NEW first \in Fields, NEW second \in Fields, first # second,
         Couples(op, first, second), op # "idle",
         IInv, IInv', InStep(op, first, second), [Next]_vars
  PROVE  InStep(op, first, second)'
<1> USE DEF InStep
<1>1. CASE UNCHANGED vars
  BY <1>1 DEF vars, Between
\* A step that sets nothing leaves those alone that are between.
<1>2. ASSUME UNCHANGED state,
             \A a \in Actors : Between(a, op) => call'[a] = call[a],
             \A a \in Actors : Between(a, op)' => Between(a, op) /\ call'[a] = call[a]
      PROVE  InStep(op, first, second)'
  BY <1>2 DEF Between
\* At step i of op.
<1>3. ASSUME NEW a \in Actors, InCall(a), call[a].op = op
      PROVE  /\ call[a].at = 1 => Doing(a)[1] = "write"
             /\ call[a].at \in {2, 3} => Doing(a)[1] = "set"
             /\ call[a].at = 2 => Doing(a)[2] = first
             /\ call[a].at = 3 => Doing(a)[2] = second
             /\ call[a].at \in Nat
  <2>1. call[a].at \in 1..Len(Program[op]) /\ Doing(a) = Program[op][call[a].at]
        /\ call[a].at \in Nat
    BY <1>3, Here DEF IInv, Placed
  <2> QED
    BY <2>1 DEF Couples
<1>4. ASSUME NEW a \in Actors, InCall(a), At(a, "set")
      PROVE  /\ Doing(a)[2] = first => call[a].op = op /\ call[a].at = 2
             /\ Doing(a)[2] = second => call[a].op = op /\ call[a].at = 3
  <2>1. call[a].at \in 1..Len(Program[call[a].op])
        /\ Doing(a) = Program[call[a].op][call[a].at] /\ call[a].op \in Ops
    BY <1>4, Here DEF IInv, Placed
  <2> QED
    BY <1>4, <2>1 DEF Couples, At
\* Nobody but a setter comes to be between, or is.
<1>5. ASSUME NEW a \in Actors, InCall(a), ~ At(a, "set"), UNCHANGED state,
             call'[a].op = call[a].op, call'[a].at = call[a].at + 1,
             \A b \in Actors \ {a} : call'[b] = call[b]
      PROVE  InStep(op, first, second)'
  <2>1. ~ Between(a, op)
    BY <1>3, <1>5 DEF Between, At
  <2>2. ~ Between(a, op)'
    BY <1>3, <1>5 DEF Between, At
  <2>3. \A b \in Actors : Between(b, op) => call'[b] = call[b]
    BY <1>5, <2>1, <2>2
  <2>4. \A b \in Actors : Between(b, op)' => Between(b, op) /\ call'[b] = call[b]
    BY <1>5, <2>1, <2>2 DEF Between
  <2> QED
    BY <1>2, <1>5, <2>3, <2>4
<1>6. ASSUME NEW a \in Actors, Give(a) \/ Take(a) \/ Read(a) \/ Write(a) \/ Drop(a)
      PROVE  InStep(op, first, second)'
  <2>1. /\ \/ At(a, "give") \/ At(a, "take") \/ At(a, "read") \/ At(a, "write")
           \/ At(a, "drop")
        /\ Step(a) /\ UNCHANGED state
    BY <1>6 DEF Give, Take, Read, Write, Drop
  <2>2. InCall(a) /\ ~ At(a, "return") /\ ~ At(a, "set")
    BY <2>1, Busy DEF At
  <2> QED
    BY <1>5, <2>1, <2>2, Moved
<1>7. ASSUME NEW a \in Actors, Get(a)
      PROVE  InStep(op, first, second)'
  <2>1. At(a, "get") /\ UNCHANGED state
    BY <1>7 DEF Get
  <2>2. InCall(a) /\ ~ At(a, "set")
    BY <2>1, Busy DEF At
  <2>3. call \in [Actors -> Calls]
    BY DEF IInv, Typed
  <2>4. /\ call'[a].op = call[a].op /\ call'[a].at = call[a].at + 1
        /\ \A b \in Actors \ {a} : call'[b] = call[b]
    BY <1>7, <2>3 DEF Get, Advanced, Calls
  <2> QED
    BY <1>5, <2>1, <2>2, <2>4
<1>8. ASSUME NEW a \in Actors, Return(a)
      PROVE  InStep(op, first, second)'
  <2>1. At(a, "return") /\ UNCHANGED state
    BY <1>8 DEF Return
  <2>2. InCall(a)
    BY <2>1, Busy
  <2>3. call'[a] = Idle /\ \A b \in Actors \ {a} : call'[b] = call[b]
    BY <1>8 DEF Return, IInv, Typed
  <2>4. ~ Between(a, op) /\ ~ Between(a, op)'
    BY <1>3, <2>1, <2>2, <2>3 DEF Between, At, Idle
  <2>5. \A b \in Actors : Between(b, op) => call'[b] = call[b]
    BY <2>3, <2>4
  <2>6. \A b \in Actors : Between(b, op)' => Between(b, op) /\ call'[b] = call[b]
    BY <2>3, <2>4 DEF Between
  <2> QED
    BY <1>2, <2>1, <2>5, <2>6
<1>9. ASSUME NEW t \in Threads, Begin(t)
      PROVE  InStep(op, first, second)'
  <2>1. PICK o \in Offered, v \in Values :
          call' = [call EXCEPT ![t] = [op |-> o, at |-> 1, arg |-> v, seen |-> <<>>]]
    BY <1>9 DEF Begin
  <2>2. t \in Actors /\ ~ InCall(t) /\ UNCHANGED state /\ call \in [Actors -> Calls]
    BY <1>9 DEF Begin, Actors, IInv, Typed
  <2>3. call'[t].at = 1 /\ \A b \in Actors \ {t} : call'[b] = call[b]
    BY <2>1, <2>2
  <2>4. ~ Between(t, op) /\ ~ Between(t, op)'
    BY <2>2, <2>3 DEF Between, InCall
  <2>5. \A b \in Actors : Between(b, op) => call'[b] = call[b]
    BY <2>3, <2>4
  <2>6. \A b \in Actors : Between(b, op)' => Between(b, op) /\ call'[b] = call[b]
    BY <2>3, <2>4 DEF Between
  <2> QED
    BY <1>2, <2>2, <2>5, <2>6
<1>10. ASSUME NEW t \in Threads, Spawn(t)
       PROVE  InStep(op, first, second)'
  <2>1. PICK j \in Jobs :
          /\ ~ InCall(j)
          /\ call' = [call EXCEPT ![t] = Advanced(@),
                                  ![j] = [op |-> Doing(t)[2], at |-> 1, arg |-> None,
                                          seen |-> <<>>]]
    BY <1>10 DEF Spawn
  <2>2. /\ t \in Actors /\ j \in Actors /\ t # j /\ At(t, "spawn") /\ UNCHANGED state
        /\ call \in [Actors -> Calls]
    BY <1>10, PyStateAssumption DEF Spawn, Actors, IInv, Typed
  <2>3. /\ call'[j].at = 1
        /\ call'[t].op = call[t].op /\ call'[t].at = call[t].at + 1
        /\ \A b \in Actors \ {t, j} : call'[b] = call[b]
    BY <2>1, <2>2 DEF Advanced, Calls
  <2>4. InCall(t)
    BY <2>2, Busy
  <2>5. ~ Between(t, op) /\ ~ Between(t, op)'
    BY <1>3, <2>2, <2>3, <2>4 DEF Between, At
  <2>6. ~ Between(j, op) /\ ~ Between(j, op)'
    BY <2>1, <2>3 DEF Between, InCall
  <2>7. \A b \in Actors : Between(b, op) => call'[b] = call[b]
    BY <2>3, <2>5, <2>6
  <2>8. \A b \in Actors : Between(b, op)' => Between(b, op) /\ call'[b] = call[b]
    BY <2>3, <2>5, <2>6 DEF Between
  <2> QED
    BY <1>2, <2>2, <2>7, <2>8
<1>11. ASSUME NEW a \in Actors, Set(a)
       PROVE  InStep(op, first, second)'
  <2>1. At(a, "set") /\ Step(a) /\ state' = [state EXCEPT ![Doing(a)[2]] = call[a].arg]
    BY <1>11 DEF Set
  <2>2. InCall(a) /\ ~ At(a, "return")
    BY <2>1, Busy DEF At
  <2>3. /\ call'[a].op = call[a].op /\ call'[a].at = call[a].at + 1
        /\ call'[a].arg = call[a].arg
        /\ \A b \in Actors \ {a} : call'[b] = call[b]
    BY <2>1, <2>2, Moved
  <2>4. state \in [Fields -> Values]
    BY DEF IInv, Typed
  \* Only a holds the lock for writing.
  <2>5. \A b \in Actors \ {a} : ~ Between(b, op)
    <3>1. writer = a
      <4>1. call[a].at \in Writing[call[a].op]
        BY <2>1, <2>2, Here DEF Keeps, At
      <4> QED
        BY <2>2, <4>1 DEF IInv, Held, Inside
    <3>2. SUFFICES ASSUME NEW b \in Actors \ {a}, Between(b, op) PROVE FALSE
      OBVIOUS
    <3>3. InCall(b)
      BY <3>2 DEF Between, InCall
    <3>4. At(b, "set")
      BY <1>3, <3>2, <3>3 DEF Between, At
    <3>5. call[b].at \in Writing[call[b].op]
      BY <3>3, <3>4, Here DEF Keeps, At
    <3>6. writer = b
      BY <3>3, <3>5 DEF IInv, Held, Inside
    <3> QED
      BY <3>1, <3>2, <3>6
  <2>6. \A b \in Actors \ {a} : ~ Between(b, op)'
    BY <2>3, <2>5 DEF Between
  <2>7. CASE Doing(a)[2] = first
    <3>1. Between(a, op)'
      BY <1>4, <2>1, <2>2, <2>3, <2>7 DEF Between
    <3>2. state'[first] = call'[a].arg
      BY <2>1, <2>3, <2>4, <2>7
    <3> QED
      BY <2>6, <3>1, <3>2
  <2>8. CASE Doing(a)[2] = second
    <3>1. Between(a, op) /\ ~ Between(a, op)'
      BY <1>4, <2>1, <2>2, <2>3, <2>8 DEF Between
    <3>2. state'[first] = state'[second]
      BY <2>1, <2>4, <2>8, <3>1
    <3> QED
      BY <2>6, <3>1, <3>2
  <2>9. CASE Doing(a)[2] # first /\ Doing(a)[2] # second
    <3>1. state'[first] = state[first] /\ state'[second] = state[second]
      BY <2>1, <2>4, <2>9
    <3>2. ~ Between(a, op) /\ ~ Between(a, op)'
      BY <1>3, <2>2, <2>3, <2>9 DEF Between
    <3> QED
      BY <2>5, <2>6, <3>1, <3>2
  <2> QED
    BY <2>7, <2>8, <2>9
<1> QED
  BY <1>1, <1>6, <1>7, <1>8, <1>9, <1>10, <1>11 DEF Next

\* When nobody writes, the compiled template is that of the template's text and
\* the JSON that of the post-processor (PyTokenizer::set_chat_template,
\* TokenizerState::update_post_processor_json).
THEOREM NeverApart == Spec => []Agreement
<1> DEFINE J == /\ InStep("set_template", "template", "renderer")
                /\ InStep("set_post", "post", "json")
<1>1. {"set_template", "set_post"} \subseteq Ops
  BY OpsAre
<1>2. {"template", "renderer", "post", "json"} \subseteq Fields
  BY DEF Fields
<1>3. Init => J
  <2> SUFFICES ASSUME Init PROVE J
    OBVIOUS
  <2>1. \A f, g \in Fields : state[f] = state[g]
    BY DEF Init
  <2>2. \A a \in Actors : call[a].at = 0
    BY DEF Init, Idle
  <2> QED
    BY <1>2, <2>1, <2>2 DEF InStep, Between
<1>4. IInv /\ IInv' /\ J /\ [Next]_vars => J'
  BY <1>1, <1>2, Coupled, InStepHolds
<1>5. IInv /\ J => Agreement
  <2> SUFFICES ASSUME IInv, J, writer = None
               PROVE  /\ state["template"] = state["renderer"]
                      /\ state["post"] = state["json"]
    BY DEF Agreement
  <2>1. ASSUME NEW a \in Actors, Between(a, "set_template") \/ Between(a, "set_post")
        PROVE  FALSE
    <3>1. InCall(a) /\ call[a].at \in Writing[call[a].op]
      BY <2>1 DEF Between, InCall, Writing
    <3>2. writer = a
      BY <3>1 DEF IInv, Held, Inside
    <3> QED
      BY <3>2, PyStateAssumption DEF Actors
  <2> QED
    BY <2>1 DEF InStep
<1> QED
  <2>1. Spec => []IInv
    BY Invariance
  <2> HIDE DEF J
  <2> QED
    BY <1>3, <1>4, <1>5, <2>1, PTL DEF Spec

=============================================================================
