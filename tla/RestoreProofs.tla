--------------------------- MODULE RestoreProofs ---------------------------
(***************************************************************************)
(* Theorems about Restore: every safety property that its run checks, for  *)
(* any type of job, any remote directory, any files and any number of      *)
(* restores.                                                               *)
(***************************************************************************)
EXTENDS Restore, TLAPS

(* What a docker program does to the target, whoever it works for. *)
LEMMA TouchType ==
    ASSUME target \in [Files -> Content], NEW h \in Program, NEW f \in h.todo,
           Touch(h, f)
    PROVE  target' \in [Files -> Content] /\ Without(h, f) \in Program
<1>1. f \in Files
  BY DEF Program
<1>2. Outcome(h) \subseteq Content
  BY DEF Outcome, Program, Content
<1>3. target' \in [Files -> Content]
  BY <1>1, <1>2 DEF Touch
<1>4. Without(h, f) \in Program
  BY DEF Without, Program
<1>5. QED
  BY <1>3, <1>4

LEMMA TypeStep == ASSUME TypeOK, [Next]_vars PROVE TypeOK'
<1> USE DEF TypeOK, command, Continue, Over
<1>1. CASE Begin
  <2>1. tries' \in 0..MaxRestores
    BY <1>1, RestoreAssumption DEF Begin
  <2>2. \A o \in ListFiles(remote) : o.run \in Runs
    BY RestoreAssumption DEF ListFiles, Object
  <2>3. QED
    BY <1>1, <2>1, <2>2 DEF Begin, Steps, Results
<1>2. CASE Download
  BY <1>2 DEF Download, Steps, Results, Refusals
<1>3. CASE Verify
  BY <1>3 DEF Verify, Proceed, Steps, Results, Refusals
<1>4. CASE Stop
  BY <1>4 DEF Stop, Steps, Results, Failures
<1>5. ASSUME NEW op \in {"wipe", "write"}, NEW files \in SUBSET Files,
             NEW s \in {"wiping", "applying"}, NEW failure \in Failures, pc # "idle",
             helper = {}, Launch(op, files, s, failure)
      PROVE  TypeOK'
  <2>1. [op |-> op, run |-> chosen, whole |-> whole, todo |-> files] \in Program
    BY DEF Program
  <2>2. CASE Over(failure) /\ UNCHANGED helper
    BY <1>5, <2>2 DEF Launch, Steps, Results
  <2>3. CASE Continue(s) /\ helper' \subseteq Program
    BY <1>5, <2>3 DEF Launch, Steps
  <2>4. QED
    BY <1>5, <2>1, <2>2, <2>3 DEF Launch
<1>6. CASE Wipe \/ Apply
  BY <1>5, <1>6 DEF Wipe, Apply, Failures
<1>7. CASE Work
  BY <1>7, TouchType DEF Work
<1>8. CASE StrayWork
  BY <1>8, TouchType DEF StrayWork
<1>9. CASE Return
  BY <1>9 DEF Return, Steps, Results, Failures, Successes
<1>10. CASE Prompt
  BY <1>10 DEF Prompt, Steps, Results, Successes
<1>11. CASE Cancel
  BY <1>11 DEF Cancel
<1>12. CASE Interrupt
  BY <1>12 DEF Interrupt, Steps, Results, Failures
<1>13. CASE Kill
  BY <1>13 DEF Kill, Steps, Results
<1>14. CASE UNCHANGED vars
  BY <1>14 DEF vars
<1>15. QED
  BY <1>1, <1>2, <1>3, <1>4, <1>6, <1>7, <1>8, <1>9, <1>10, <1>11, <1>12, <1>13,
     <1>14 DEF Next

LEMMA TypeInit == Init => TypeOK
<1> SUFFICES ASSUME Init PROVE TypeOK
  OBVIOUS
<1>1. tries \in 0..MaxRestores
  BY RestoreAssumption DEF Init
<1>2. target \in [Files -> Content]
  BY DEF Init, Content
<1>3. QED
  BY <1>1, <1>2 DEF Init, TypeOK, Steps, Results

(* The types hold in every state, and a command's program is gone when the *)
(* command is over.                                                        *)
THEOREM TypeCorrect == Spec => []TypeOK
<1>1. TypeOK /\ [Next]_vars => TypeOK'
  BY TypeStep
<1>2. QED
  BY <1>1, TypeInit, PTL DEF Spec
-----------------------------------------------------------------------------
(* Where a command is says whether its container runs: it has not touched  *)
(* anything before the stop, and is stopped from then on. Strays at a      *)
(* command's side come from earlier ones.                                  *)
Control ==
    /\ pc # "idle" => result = "none" /\ (up => wasUp) /\ (alone => strays = {})
    /\ pc \in {"stop", "wipe", "wiping", "prompt"} => type \in Stops
    /\ pc \in {"wipe", "wiping", "apply", "applying"} /\ type \in Stops => ~up
    /\ type \notin Stops => up = wasUp
    /\ RefusalIsHarmless /\ NotWrittenLive /\ RunStateIsTold

LEMMA ControlStep == ASSUME TypeOK, Control, [Next]_vars PROVE Control'
<1> USE DEF Control, RefusalIsHarmless, NotWrittenLive, RunStateIsTold, command, Continue,
            Over, Refusals, Failures, Successes
<1>1. helper # {} => pc \in {"wiping", "applying"}
  BY DEF TypeOK
<1>2. CASE Begin
  BY <1>1, <1>2 DEF Begin
<1>3. CASE Download
  BY <1>1, <1>3 DEF Download
<1>4. CASE Verify
  BY <1>1, <1>4 DEF Verify, Proceed
<1>5. CASE Stop
  BY <1>1, <1>5 DEF Stop, TypeOK
<1>6. CASE Wipe \/ Apply
  <2>1. /\ pc \in {"wipe", "apply"} /\ helper = {}
        /\ UNCHANGED <<type, up, wasUp, touched, alone, strays, asked>>
    BY <1>1, <1>6 DEF Wipe, Apply, Launch
  <2>2. \/ pc' \in {"wiping", "applying"} /\ (pc' = "wiping" => pc = "wipe") /\ result' = result
        \/ pc' = "idle" /\ result' \in {"not wiped", "not applied"} /\ helper' = helper
    BY <1>6 DEF Wipe, Apply, Launch
  <2>3. QED
    BY <2>1, <2>2
<1>7. CASE Work
  <2>1. /\ helper # {}
        /\ UNCHANGED <<type, pc, up, wasUp, alone, strays, result, asked>>
    BY <1>7 DEF Work
  <2>2. QED
    BY <1>1, <2>1
<1>8. CASE StrayWork
  <2>1. /\ strays # {}
        /\ UNCHANGED <<type, pc, up, wasUp, alone, helper, result, asked, touched>>
    BY <1>8 DEF StrayWork
  <2>2. QED
    BY <1>1, <2>1
<1>9. CASE Return
  BY <1>1, <1>9 DEF Return
<1>10. CASE Prompt
  BY <1>1, <1>10 DEF Prompt
<1>11. CASE Cancel
  BY <1>1, <1>11 DEF Cancel
<1>12. CASE Interrupt
  BY <1>1, <1>12 DEF Interrupt
<1>13. CASE Kill
  BY <1>1, <1>13 DEF Kill
<1>14. CASE UNCHANGED vars
  BY <1>14 DEF vars
<1>15. QED
  BY <1>2, <1>3, <1>4, <1>5, <1>6, <1>7, <1>8, <1>9, <1>10, <1>11, <1>12, <1>13,
     <1>14 DEF Next

LEMMA ControlInit == Init => Control
BY DEF Init, Control, RefusalIsHarmless, NotWrittenLive, RunStateIsTold, Refusals

LEMMA ControlHolds == Spec => [](TypeOK /\ Control)
<1>1. TypeOK /\ Control /\ [Next]_vars => TypeOK' /\ Control'
  BY TypeStep, ControlStep
<1>2. QED
  BY <1>1, TypeInit, ControlInit, PTL DEF Spec

(* A restore that refuses has changed nothing. *)
THEOREM RefusalsHarmless == Spec => []RefusalIsHarmless
<1>1. Control => RefusalIsHarmless
  BY DEF Control
<1>2. QED
  BY <1>1, ControlHolds, PTL

(* No command writes to the target of a container that runs, if its type   *)
(* has to stop it, and no stray of a command that was alone does.          *)
THEOREM NeverWrittenLive == Spec => []NotWrittenLive
<1>1. Control => NotWrittenLive
  BY DEF Control
<1>2. QED
  BY <1>1, ControlHolds, PTL

(* A command that changes whether the container runs has asked or failed.  *)
THEOREM RunStateTold == Spec => []RunStateIsTold
<1>1. Control => RunStateIsTold
  BY DEF Control
<1>2. QED
  BY <1>1, ControlHolds, PTL
-----------------------------------------------------------------------------
(* What a command that is alone has done so far: its program works on its  *)
(* archive, has dealt with every file that is not left to do, and bytes    *)
(* that are not the right ones have a warning.                             *)
Mine(h) ==
    /\ h.run = chosen /\ h.whole = whole
    /\ h.op = IF pc = "wiping" THEN "wipe" ELSE "write"
    /\ pc = "applying" /\ whole => \A f \in Files \ h.todo : target[f] = chosen

Placed == type \in Tolerant \/ Exact

Progress ==
    /\ pc \in Steps \ {"idle", "download", "verify"} => whole \/ warning
    /\ alone =>
        /\ \A h \in helper : Mine(h)
        /\ pc = "prompt" => ~whole \/ Placed
        /\ result = "restored" => strays = {} /\ Placed

LEMMA ProgressStep ==
    ASSUME TypeOK, Control, Progress, [Next]_vars
    PROVE  Progress'
<1> USE DEF Progress, command
<1>1. helper # {} => pc \in {"wiping", "applying"}
  BY DEF TypeOK
<1>2. pc # "idle" => result = "none" /\ (alone => strays = {})
  BY DEF Control
<1>3. CASE Begin
  <2>1. pc' = "download" /\ result' = "none" /\ helper' = {}
    BY <1>1, <1>3 DEF Begin
  <2>2. QED
    BY <2>1
<1>4. ASSUME helper' = {}, pc' = "idle", result' # "restored"
      PROVE  Progress'
  BY <1>4
<1>5. CASE Download
  <2>1. helper = {} /\ helper' = helper
    BY <1>1, <1>5 DEF Download
  <2>2. \/ pc' = "idle" /\ result' = "not downloaded"
        \/ pc' = "verify" /\ result' = "none"
    BY <1>2, <1>5 DEF Download, Over, Continue
  <2>3. QED
    BY <2>1, <2>2, <1>4
<1>6. CASE Verify
  <2>1. helper = {} /\ helper' = helper
    BY <1>1, <1>6 DEF Verify
  <2>2. CASE Over("refused")
    BY <1>4, <2>1, <2>2 DEF Over
  <2>3. CASE Proceed /\ (whole \/ warning') /\ whole' = whole
    <3>1. /\ pc' = IF type \in Stops THEN "stop" ELSE "apply"
          /\ result' = "none" /\ type' = type
      BY <1>2, <1>6, <2>3 DEF Verify, Proceed, Continue
    <3>2. QED
      BY <2>1, <2>3, <3>1
  <2>4. QED
    BY <1>6, <2>2, <2>3 DEF Verify
<1>7. CASE Stop
  <2>1. helper = {} /\ helper' = helper /\ pc = "stop"
    BY <1>1, <1>7 DEF Stop
  <2>2. CASE Over("not stopped")
    BY <1>4, <2>1, <2>2 DEF Over
  <2>3. CASE Continue(IF type \in Wipes THEN "wipe" ELSE "apply")
    <3>1. /\ pc' = IF type \in Wipes THEN "wipe" ELSE "apply"
          /\ result' = "none" /\ UNCHANGED <<type, whole, warning>>
      BY <1>2, <1>7, <2>1, <2>3 DEF Stop, Continue
    <3>2. QED
      BY <2>1, <3>1 DEF Steps
  <2>4. QED
    BY <1>7, <2>2, <2>3 DEF Stop
<1>8. CASE Wipe
  <2>1. /\ helper = {} /\ pc = "wipe"
        /\ UNCHANGED <<type, chosen, whole, warning, target, strays, alone>>
    BY <1>1, <1>8 DEF Wipe, Launch
  <2>2. CASE Over("not wiped") /\ UNCHANGED helper
    BY <1>4, <2>1, <2>2 DEF Over
  <2>3. CASE /\ helper' = {[op |-> "wipe", run |-> chosen, whole |-> whole, todo |-> Files]}
             /\ Continue("wiping")
    <3>1. pc' = "wiping" /\ result' = "none"
      BY <1>2, <2>1, <2>3 DEF Continue
    <3>2. \A h \in helper' : Mine(h)'
      BY <2>1, <2>3, <3>1 DEF Mine
    <3>3. whole \/ warning
      BY <2>1 DEF Steps
    <3>4. QED
      BY <2>1, <3>1, <3>2, <3>3
  <2>4. QED
    BY <1>8, <2>2, <2>3 DEF Wipe, Launch
<1>9. CASE Apply
  <2>1. /\ helper = {} /\ pc = "apply"
        /\ UNCHANGED <<type, chosen, whole, warning, target, strays, alone>>
    BY <1>1, <1>9 DEF Apply, Launch
  <2>2. CASE Over("not applied") /\ UNCHANGED helper
    BY <1>4, <2>1, <2>2 DEF Over
  <2>3. CASE /\ helper' = {[op |-> "write", run |-> chosen, whole |-> whole, todo |-> Files]}
             /\ Continue("applying")
    <3>1. pc' = "applying" /\ result' = "none"
      BY <1>2, <2>1, <2>3 DEF Continue
    <3>2. \A h \in helper' : Mine(h)'
      BY <2>1, <2>3, <3>1 DEF Mine
    <3>3. whole \/ warning
      BY <2>1 DEF Steps
    <3>4. QED
      BY <2>1, <3>1, <3>2, <3>3
  <2>4. QED
    BY <1>9, <2>2, <2>3 DEF Apply, Launch
<1>10. CASE Work
  <2> PICK h \in helper : \E f \in h.todo : Touch(h, f) /\ helper' = {Without(h, f)}
    BY <1>10 DEF Work
  <2>1. PICK f \in h.todo : Touch(h, f) /\ helper' = {Without(h, f)}
    OBVIOUS
  <2>2. UNCHANGED <<type, pc, chosen, alone, whole, warning, strays, result>>
    BY <1>10 DEF Work
  <2>3. SUFFICES ASSUME alone PROVE Mine(Without(h, f))'
    BY <1>1, <1>2, <2>1, <2>2
  <2>4. h \in Program /\ f \in Files /\ target \in [Files -> Content]
    BY DEF TypeOK, Program
  <2>5. /\ Without(h, f).run = h.run /\ Without(h, f).whole = h.whole
        /\ Without(h, f).op = h.op /\ Without(h, f).todo = h.todo \ {f}
    BY <2>4 DEF Without, Program
  <2>6. PICK c \in Outcome(h) : target' = [target EXCEPT ![f] = c]
    BY <2>1 DEF Touch
  <2>7. target'[f] = c /\ \A g \in Files \ {f} : target'[g] = target[g]
    BY <2>4, <2>6
  <2>8. Mine(h)
    BY <2>3
  <2>9. SUFFICES ASSUME pc = "applying", whole
                 PROVE  \A g \in Files \ (h.todo \ {f}) : target'[g] = chosen
    BY <2>2, <2>5, <2>8 DEF Mine
  <2>10. /\ h.op = "write" /\ h.whole = whole /\ h.run = chosen
         /\ \A g \in Files \ h.todo : target[g] = chosen
    BY <2>8, <2>9 DEF Mine
  <2>11. c = chosen
    BY <2>6, <2>9, <2>10 DEF Outcome
  <2>12. QED
    BY <2>7, <2>10, <2>11
<1>11. CASE StrayWork
  <2>1. strays # {} /\ UNCHANGED <<pc, alone, whole, warning, helper, result>>
    BY <1>11 DEF StrayWork
  <2>2. alone => pc = "idle" /\ result # "restored" /\ helper = {}
    BY <1>1, <1>2, <2>1
  <2>3. QED
    BY <2>1, <2>2
<1>12. CASE Return
  <2>1. PICK h \in helper :
            \/ EndsWell(h) /\ pc = "wiping" /\ Continue("apply")
            \/ EndsWell(h) /\ pc = "applying" /\ type \in Stops /\ Continue("prompt")
            \/ /\ EndsWell(h) /\ pc = "applying" /\ type \notin Stops
               /\ Over(IF warning THEN "restored unverified" ELSE "restored")
            \/ Over(IF pc = "wiping" THEN "not wiped" ELSE "not applied")
    BY <1>12 DEF Return
  <2>2. helper' = {} /\ pc \in {"wiping", "applying"} /\ result = "none"
        /\ UNCHANGED <<type, chosen, alone, whole, warning, target, strays>>
    BY <1>1, <1>2, <1>12 DEF Return
  <2>3. whole \/ warning
    BY <2>2 DEF Steps
  <2>4. alone => Mine(h) /\ strays = {}
    BY <1>2, <2>2
  <2>5. CASE EndsWell(h) /\ pc = "wiping" /\ Continue("apply")
    <3>1. pc' = "apply" /\ result' = "none"
      BY <2>2, <2>5 DEF Continue
    <3>2. QED
      BY <2>2, <2>3, <3>1
  <2>6. EndsWell(h) /\ pc = "applying" /\ alone /\ whole => Placed'
    <3>1. SUFFICES ASSUME EndsWell(h), pc = "applying", alone, whole, type \notin Tolerant
                   PROVE  Exact'
      BY <2>2 DEF Placed
    <3>2. h.op = "write" /\ \A f \in Files \ h.todo : target[f] = chosen
      BY <2>4, <3>1 DEF Mine
    <3>3. h.todo = {}
      BY <3>1, <3>2 DEF EndsWell
    <3>4. QED
      BY <2>2, <3>2, <3>3 DEF Exact
  <2>7. CASE EndsWell(h) /\ pc = "applying" /\ Continue("prompt")
    <3>1. pc' = "prompt" /\ result' = "none"
      BY <2>2, <2>7 DEF Continue
    <3>2. QED
      BY <2>2, <2>3, <2>6, <2>7, <3>1
  <2>8. CASE /\ EndsWell(h) /\ pc = "applying"
             /\ Over(IF warning THEN "restored unverified" ELSE "restored")
    <3>1. pc' = "idle" /\ (result' = "restored" => ~warning)
      BY <2>8 DEF Over
    <3>2. QED
      BY <2>2, <2>3, <2>4, <2>6, <2>8, <3>1
  <2>9. CASE Over(IF pc = "wiping" THEN "not wiped" ELSE "not applied")
    BY <1>4, <2>2, <2>9 DEF Over
  <2>10. QED
    BY <2>1, <2>5, <2>7, <2>8, <2>9
<1>13. CASE Prompt
  <2>1. /\ pc = "prompt" /\ pc' = "idle" /\ helper' = helper /\ helper = {}
        /\ result' = IF warning THEN "restored unverified" ELSE "restored"
        /\ UNCHANGED <<type, chosen, alone, whole, warning, target, strays>>
    BY <1>1, <1>13 DEF Prompt, Over
  <2>2. (whole \/ warning) /\ (alone => strays = {} /\ (~whole \/ Placed))
    BY <1>2, <2>1 DEF Steps
  <2>3. Placed => Placed'
    BY <2>1 DEF Placed, Exact
  <2>4. QED
    BY <2>1, <2>2, <2>3
<1>14. CASE Cancel \/ UNCHANGED vars
  <2>1. UNCHANGED <<type, pc, chosen, alone, whole, warning, target, helper, strays, result>>
    BY <1>14 DEF Cancel, vars
  <2>2. Placed' = Placed /\ \A h \in helper : Mine(h)' = Mine(h)
    BY <2>1 DEF Placed, Exact, Mine
  <2>3. QED
    BY <2>1, <2>2
<1>15. CASE Interrupt \/ Kill
  BY <1>4, <1>15 DEF Interrupt, Kill, Over
<1>16. QED
  BY <1>3, <1>5, <1>6, <1>7, <1>8, <1>9, <1>10, <1>11, <1>12, <1>13, <1>14, <1>15 DEF Next

LEMMA ProgressInit == Init => Progress
BY DEF Init, Progress

(* A restore that ends without error or warning has restored exactly what  *)
(* was backed up, unless an interrupted one still has a program at work or *)
(* its own program tolerates errors.                                       *)
THEOREM VerifiedExact == Spec => []VerifiedIsExact
<1>1. Progress => VerifiedIsExact
  BY DEF Progress, Placed, VerifiedIsExact
<1>2. TypeOK /\ Control /\ Progress /\ [Next]_vars => TypeOK' /\ Control' /\ Progress'
  BY TypeStep, ControlStep, ProgressStep
<1>3. QED
  BY <1>1, <1>2, TypeInit, ControlInit, ProgressInit, PTL DEF Spec
-----------------------------------------------------------------------------
(* psql, mysql, mongorestore or another program has done the whole archive *)
(* whenever it ends well: no statement of it has failed.                   *)
NothingSkipped ==
    [][Return /\ pc = "applying" /\ result' \notin Failures =>
           \A h \in helper : h.todo = {}]_vars

(* What has been restored from whole bytes, by a command that is alone.    *)
Complete ==
    alone => /\ pc = "prompt" /\ whole => Exact
             /\ result = "restored" => Exact

LEMMA CompleteStep ==
    ASSUME TypeOK, Control, Progress, Complete, [Next]_vars,
           Return /\ pc = "applying" /\ result' \notin Failures =>
               \A h \in helper : h.todo = {}
    PROVE  Complete'
<1> USE DEF Complete, command
<1>1. helper # {} => pc \in {"wiping", "applying"}
  BY DEF TypeOK
<1>2. pc # "idle" => result = "none" /\ (alone => strays = {})
  BY DEF Control
<1>3. ASSUME pc' # "prompt", result' # "restored" PROVE Complete'
  BY <1>3
<1>4. CASE Begin \/ Download \/ Verify \/ Stop \/ Wipe \/ Apply
  <2>1. pc' # "prompt"
    BY <1>4 DEF Begin, Download, Verify, Proceed, Stop, Wipe, Apply, Launch, Continue, Over
  <2>2. result' # "restored"
    BY <1>2, <1>4 DEF Begin, Download, Verify, Proceed, Stop, Wipe, Apply, Launch, Continue,
       Over
  <2>3. QED
    BY <1>3, <2>1, <2>2
<1>5. CASE Work
  BY <1>1, <1>2, <1>3, <1>5 DEF Work
<1>6. CASE StrayWork
  <2>1. strays # {} /\ UNCHANGED <<pc, alone, whole, result>>
    BY <1>6 DEF StrayWork
  <2>2. alone => pc = "idle" /\ result # "restored"
    BY <1>2, <2>1 DEF Progress
  <2>3. QED
    BY <2>1, <2>2
<1>7. CASE Return
  <2>1. PICK h \in helper :
            \/ EndsWell(h) /\ pc = "wiping" /\ Continue("apply")
            \/ EndsWell(h) /\ pc = "applying" /\ type \in Stops /\ Continue("prompt")
            \/ /\ EndsWell(h) /\ pc = "applying" /\ type \notin Stops
               /\ Over(IF warning THEN "restored unverified" ELSE "restored")
            \/ Over(IF pc = "wiping" THEN "not wiped" ELSE "not applied")
    BY <1>7 DEF Return
  <2>2. /\ pc \in {"wiping", "applying"} /\ result = "none"
        /\ UNCHANGED <<chosen, alone, whole, target>>
    BY <1>1, <1>2, <1>7 DEF Return
  <2>3. CASE pc = "wiping" /\ Continue("apply")
    BY <1>3, <2>2, <2>3 DEF Continue
  <2>4. CASE Over(IF pc = "wiping" THEN "not wiped" ELSE "not applied")
    BY <1>3, <2>4 DEF Over
  <2>5. CASE /\ pc = "applying"
             /\ \/ Continue("prompt")
                \/ Over(IF warning THEN "restored unverified" ELSE "restored")
    <3>1. result' \notin Failures
      BY <2>2, <2>5 DEF Continue, Over, Failures
    <3>2. h.todo = {}
      BY <1>7, <2>5, <3>1
    <3>3. alone => Mine(h)
      BY DEF Progress
    <3>4. alone /\ whole => Exact'
      BY <2>2, <2>5, <3>2, <3>3 DEF Mine, Exact
    <3>5. whole \/ warning
      BY <2>5 DEF Progress, Steps
    <3>6. result' = "restored" => ~warning
      BY <2>2, <2>5 DEF Continue, Over
    <3>7. QED
      BY <2>2, <3>4, <3>5, <3>6
  <2>6. QED
    BY <2>1, <2>3, <2>4, <2>5
<1>8. CASE Prompt
  <2>1. /\ pc = "prompt" /\ pc' = "idle"
        /\ result' = IF warning THEN "restored unverified" ELSE "restored"
        /\ UNCHANGED <<chosen, alone, whole, target>>
    BY <1>8 DEF Prompt, Over
  <2>2. whole \/ warning
    BY <2>1 DEF Progress, Steps
  <2>3. Exact' = Exact
    BY <2>1 DEF Exact
  <2>4. QED
    BY <2>1, <2>2, <2>3
<1>9. CASE Cancel \/ UNCHANGED vars
  <2>1. UNCHANGED <<pc, chosen, alone, whole, target, result>>
    BY <1>9 DEF Cancel, vars
  <2>2. QED
    BY <2>1 DEF Exact
<1>10. CASE Interrupt \/ Kill
  BY <1>3, <1>10 DEF Interrupt, Kill, Over
<1>11. QED
  BY <1>4, <1>5, <1>6, <1>7, <1>8, <1>9, <1>10 DEF Next

(* README's "replace, don't merge", which RestoreMerged violates with one  *)
(* failed statement, holds of every type, after any number of failed,      *)
(* interrupted and killed restores, if no statement fails in a restore     *)
(* that succeeds. So that is the only way for a verified success of a      *)
(* restore that is alone to leave data of before.                          *)
THEOREM ReplacedUnlessSkipped == Spec /\ NothingSkipped => []SuccessReplaces
<1> DEFINE Skips == Return /\ pc = "applying" /\ result' \notin Failures =>
                        \A h \in helper : h.todo = {}
<1>1. Init => Complete
  BY DEF Init, Complete
<1>2. TypeOK /\ Control /\ Progress /\ [Next]_vars => TypeOK' /\ Control' /\ Progress'
  BY TypeStep, ControlStep, ProgressStep
<1>3. UNCHANGED vars => Skips
  <2>1. SUFFICES ASSUME UNCHANGED vars, Return PROVE FALSE
    OBVIOUS
  <2>2. pc' = pc /\ result' = result /\ helper' = helper
    BY <2>1 DEF vars
  <2>3. QED
    BY <2>1, <2>2 DEF Return
<1>4. TypeOK /\ Control /\ Progress /\ Complete /\ [Next]_vars /\ [Skips]_vars => Complete'
  BY <1>3, CompleteStep
<1>5. Complete => SuccessReplaces
  BY DEF Complete, SuccessReplaces
<1>6. QED
  BY <1>1, <1>2, <1>4, <1>5, TypeInit, ControlInit, ProgressInit, PTL
     DEF Spec, NothingSkipped
=============================================================================
