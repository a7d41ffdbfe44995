--------------------------- MODULE Studio_proofs ----------------------------
(***************************************************************************)
(* ELMAN Studio, for any number of calls, pages, plans, runs, ids, approvals  *)
(* and bounds.                                                                *)
(*                                                                         *)
(* The generator, one call at a time: a project a call returned is whole, and *)
(* no file is ever written twice.  The gate before it: what is generated is   *)
(* the plan that was approved.  The local workflows: an approval starts one   *)
(* run, and a report is that of its run.  The history beside them: what it    *)
(* shows is stored, and the report of a run that is over is shown.  Each part *)
(* has an inductive invariant of its own.                                     *)
(***************************************************************************)
EXTENDS ProjectGenerator, Studio, WorkflowHistory, Integers, FiniteSetTheorems, TLAPS

----------------------------------------------------------------------------
\* The generator.

IShape ==
    /\ slug \in [Callers -> Slugs]
    /\ content \in [Slugs -> [Files -> Callers \cup {NoOne, Torn}]]
    /\ pc \in [Callers -> {"idle", "checked", "writing", "returned", "raised"}]
    /\ written \in [Callers -> Nat]

IAlone == \A c, d \in Callers : Running(c) /\ Running(d) => c = d

IIdle == \A c \in Callers : pc[c] \in {"idle", "checked"} => written[c] = 0

IChecked == \A c \in Callers : pc[c] = "checked" => ~Occupied(slug[c])

IWriting ==
    \A c \in Callers : pc[c] = "writing" =>
        /\ written[c] <= FileCount[c]
        /\ \A f \in Files : content[slug[c]][f] = IF f <= written[c] THEN c ELSE NoOne

IReturned ==
    \A c \in Callers : pc[c] = "returned" =>
        \A f \in Files : content[slug[c]][f] = IF f <= FileCount[c] THEN c ELSE NoOne

IInv == IShape /\ IAlone /\ IIdle /\ IChecked /\ IWriting /\ IReturned

\* Every project has a first file.
LEMMA FirstFile ==
    ASSUME NEW c \in Callers
    PROVE  1 \in Files /\ FileCount[c] \in Nat /\ 1 <= FileCount[c]
BY GeneratorAssumption DEF Files

LEMMA FilesAreNumbers == Files \subseteq Nat
BY GeneratorAssumption DEF Files

\* A call that is past the test shares its directory with no call that returned.
LEMMA Apart ==
    ASSUME IInv, NEW c \in Callers, NEW d \in Callers, Running(c), pc[d] = "returned"
    PROVE  slug[c] # slug[d]
<1>1. content[slug[d]][1] = d
  BY FirstFile DEF IInv, IReturned
<1>2. d # NoOne /\ c # d
  BY GeneratorAssumption DEF Running
<1>3. CASE pc[c] = "checked"
  BY <1>1, <1>2, <1>3, FirstFile DEF IInv, IChecked, Occupied
<1>4. CASE pc[c] = "writing"
  BY <1>1, <1>2, <1>4, FirstFile DEF IInv, IWriting
<1> QED
  BY <1>3, <1>4 DEF Running

LEMMA InitKeeps == Init => IInv
BY DEF Init, IInv, IShape, IAlone, IIdle, IChecked, IWriting, IReturned, Running

LEMMA CheckKeeps == ASSUME Serial, IInv, NEW c \in Callers, Check(c) PROVE IInv'
<1> USE DEF Check, Begins
<1>1. IShape'
  BY DEF IInv, IShape
<1>2. IAlone'
  BY DEF IInv, IShape, IAlone, Running
<1>3. IIdle' /\ IChecked'
  BY DEF IInv, IShape, IIdle, IChecked, Occupied
<1>4. IWriting' /\ IReturned'
  BY DEF IInv, IShape, IWriting, IReturned
<1> QED
  BY <1>1, <1>2, <1>3, <1>4 DEF IInv

LEMMA MakeRootKeeps == ASSUME IInv, NEW c \in Callers, MakeRoot(c) PROVE IInv'
<1> USE DEF MakeRoot
<1>1. IShape'
  BY DEF IInv, IShape
<1>2. IAlone'
  BY DEF IInv, IShape, IAlone, Running
<1>3. IIdle' /\ IChecked'
  BY DEF IInv, IShape, IIdle, IChecked, Occupied
<1>4. written[c] = 0 /\ \A f \in Files : content[slug[c]][f] = NoOne
  BY DEF IInv, IIdle, IChecked, Occupied
<1>5. \A f \in Files : ~(f <= 0)
  BY GeneratorAssumption DEF Files
<1>6. 0 <= FileCount[c]
  BY FirstFile
<1>7. IWriting'
  BY <1>4, <1>5, <1>6 DEF IInv, IShape, IWriting
<1>8. IReturned'
  BY DEF IInv, IShape, IReturned
<1> QED
  BY <1>1, <1>2, <1>3, <1>7, <1>8 DEF IInv

\* A call that ends where it was, raising.
LEMMA RaiseKeeps ==
    ASSUME IInv, NEW c \in Callers, pc' = [pc EXCEPT ![c] = "raised"],
           UNCHANGED <<slug, content, written>>
    PROVE  IInv'
<1>1. IShape'
  BY DEF IInv, IShape
<1>2. IAlone'
  BY DEF IInv, IShape, IAlone, Running
<1>3. IIdle' /\ IChecked'
  BY DEF IInv, IShape, IIdle, IChecked, Occupied
<1>4. IWriting' /\ IReturned'
  BY DEF IInv, IShape, IWriting, IReturned
<1> QED
  BY <1>1, <1>2, <1>3, <1>4 DEF IInv

LEMMA ReturnKeeps == ASSUME IInv, NEW c \in Callers, Return(c) PROVE IInv'
<1> USE DEF Return
<1>1. IShape'
  BY DEF IInv, IShape
<1>2. IAlone'
  BY DEF IInv, IShape, IAlone, Running
<1>3. IIdle' /\ IChecked'
  BY DEF IInv, IShape, IIdle, IChecked, Occupied
<1>4. IWriting' /\ IReturned'
  BY DEF IInv, IShape, IWriting, IReturned
<1> QED
  BY <1>1, <1>2, <1>3, <1>4 DEF IInv

\* What one write does to the directories.
LEMMA PutEffect ==
    ASSUME IInv, NEW c \in Callers, NEW text \in Callers \cup {Torn}, Put(c, text)
    PROVE  /\ content' \in [Slugs -> [Files -> Callers \cup {NoOne, Torn}]]
           /\ \A s \in Slugs, f \in Files :
                content'[s][f] = IF s = slug[c] /\ f = written[c] + 1 THEN text ELSE content[s][f]
BY DEF Put, IInv, IShape

\* Nobody else is past the test, and what was returned is elsewhere.
LEMMA PutDisturbsNoOne ==
    ASSUME IInv, NEW c \in Callers, Running(c), NEW text \in Callers \cup {Torn}, Put(c, text),
           NEW d \in Callers, pc[d] = "returned", NEW f \in Files
    PROVE  content'[slug[d]][f] = content[slug[d]][f]
BY PutEffect, Apart DEF IInv, IShape

LEMMA WriteKeeps == ASSUME IInv, NEW c \in Callers, Write(c) PROVE IInv'
<1> USE DEF Write
<1>1. Running(c)
  BY DEF Running
<1>2. IShape'
  BY PutEffect DEF IInv, IShape
<1>3. IAlone'
  BY DEF IInv, IAlone, Running
<1>4. IIdle'
  BY DEF IInv, IShape, IIdle
<1>5. IChecked'
  BY <1>1 DEF IInv, IAlone, Running, IChecked
<1>6. IWriting'
  <2> SUFFICES ASSUME NEW d \in Callers, pc[d] = "writing"
               PROVE  /\ written'[d] <= FileCount[d]
                      /\ \A f \in Files : content'[slug[d]][f] =
                            IF f <= written'[d] THEN d ELSE NoOne
    BY DEF IWriting
  <2>1. d = c
    BY <1>1 DEF IInv, IAlone, Running
  <2>2. written[c] \in Nat /\ written'[c] = written[c] + 1 /\ written[c] < FileCount[c]
    BY DEF IInv, IShape
  <2>3. FileCount[c] \in Nat /\ Files \subseteq Nat
    BY GeneratorAssumption, FilesAreNumbers
  <2>4. \A f \in Files :
           content'[slug[c]][f] = IF f = written[c] + 1 THEN c ELSE content[slug[c]][f]
    BY PutEffect DEF IInv, IShape
  <2>5. \A f \in Files : content[slug[c]][f] = IF f <= written[c] THEN c ELSE NoOne
    BY DEF IInv, IWriting
  <2> QED
    BY <2>1, <2>2, <2>3, <2>4, <2>5
<1>7. IReturned'
  BY <1>1, PutDisturbsNoOne DEF IInv, IReturned
<1> QED
  BY <1>2, <1>3, <1>4, <1>5, <1>6, <1>7 DEF IInv

LEMMA WriteFailsKeeps == ASSUME IInv, NEW c \in Callers, WriteFails(c) PROVE IInv'
<1>1. CASE UNCHANGED content
  BY <1>1, RaiseKeeps DEF WriteFails
<1>2. CASE Put(c, Torn)
  <2> USE DEF WriteFails
  <2>1. Running(c)
    BY DEF Running
  <2>2. IShape'
    BY <1>2, PutEffect DEF IInv, IShape
  <2>3. IAlone'
    BY DEF IInv, IShape, IAlone, Running
  <2>4. IIdle'
    BY DEF IInv, IShape, IIdle
  <2>5. \A d \in Callers : Running(d)' => FALSE
    BY <2>1 DEF IInv, IShape, IAlone, Running
  <2>6. IChecked' /\ IWriting'
    BY <2>5 DEF Running, IChecked, IWriting
  <2>7. IReturned'
    BY <1>2, <2>1, PutDisturbsNoOne DEF IInv, IShape, IReturned
  <2> QED
    BY <2>2, <2>3, <2>4, <2>6, <2>7 DEF IInv
<1> QED
  BY <1>1, <1>2 DEF WriteFails

LEMMA NextKeeps == ASSUME Serial, IInv, [Next]_generatorVars PROVE IInv'
<1>1. CASE UNCHANGED generatorVars
  BY <1>1 DEF generatorVars, IInv, IShape, IAlone, IIdle, IChecked, IWriting, IReturned,
              Running, Occupied
<1>2. ASSUME NEW c \in Callers,
             Check(c) \/ Refuse(c) \/ MakeRoot(c) \/ RootFails(c)
               \/ Write(c) \/ WriteFails(c) \/ Return(c)
      PROVE  IInv'
  <2>1. CASE Check(c)
    BY <2>1, CheckKeeps
  <2>2. CASE Refuse(c)
    BY <2>2, RaiseKeeps DEF Refuse
  <2>3. CASE MakeRoot(c)
    BY <2>3, MakeRootKeeps
  <2>4. CASE RootFails(c)
    BY <2>4, RaiseKeeps DEF RootFails
  <2>5. CASE Write(c)
    BY <2>5, WriteKeeps
  <2>6. CASE WriteFails(c)
    BY <2>6, WriteFailsKeeps
  <2>7. CASE Return(c)
    BY <2>7, ReturnKeeps
  <2> QED
    BY <1>2, <2>1, <2>2, <2>3, <2>4, <2>5, <2>6, <2>7
<1> QED
  BY <1>1, <1>2 DEF Next

LEMMA InvariantHolds == ASSUME Serial PROVE Spec => []IInv
<1>1. Init => IInv
  BY InitKeeps
<1>2. IInv /\ [Next]_generatorVars => IInv'
  BY NextKeeps
<1> QED
  BY <1>1, <1>2, PTL DEF Spec

\* One call at a time: what generate returned is a whole project, and stays so.
THEOREM GenerationIsComplete == ASSUME Serial PROVE Spec => []ReturnedIsComplete
<1>1. IInv => ReturnedIsComplete
  <2> SUFFICES ASSUME IInv, NEW c \in Callers, pc[c] = "returned"
               PROVE  content[slug[c]] = Project(c)
    BY DEF ReturnedIsComplete
  <2>1. content[slug[c]] \in [Files -> Callers \cup {NoOne, Torn}]
    BY DEF IInv, IShape
  <2>2. \A f \in Files : content[slug[c]][f] = Project(c)[f]
    BY DEF IInv, IReturned, Project
  <2> QED
    BY <2>1, <2>2 DEF Project
<1> QED
  BY <1>1, InvariantHolds, PTL

\* A write only ever fills a file that was not there.
LEMMA PutFills ==
    ASSUME IInv, NEW c \in Callers, pc[c] = "writing", NEW text \in Callers \cup {Torn},
           Put(c, text), NEW s \in Slugs, NEW f \in Files, content[s][f] # NoOne
    PROVE  content'[s][f] = content[s][f]
<1>1. CASE s = slug[c] /\ f = written[c] + 1
  <2>1. written[c] \in Nat /\ ~(written[c] + 1 <= written[c])
    BY DEF IInv, IShape
  <2> QED
    BY <1>1, <2>1 DEF IInv, IWriting
<1>2. CASE ~(s = slug[c] /\ f = written[c] + 1)
  BY <1>2, PutEffect
<1> QED
  BY <1>1, <1>2

\* One call at a time: no file is written twice.
THEOREM GenerationNeverOverwrites == ASSUME Serial PROVE Spec => NeverOverwritten
<1> DEFINE Kept == \A s \in Slugs, f \in Files :
                      content[s][f] # NoOne => content'[s][f] = content[s][f]
<1>1. ASSUME IInv, [Next]_generatorVars PROVE [Kept]_content
  <2>1. ASSUME NEW c \in Callers, Write(c) \/ WriteFails(c) PROVE [Kept]_content
    BY <1>1, <2>1, PutFills DEF Write, WriteFails
  <2>2. ASSUME UNCHANGED content PROVE [Kept]_content
    BY <2>2
  <2> QED
    BY <1>1, <2>1, <2>2 DEF Next, generatorVars, Check, Refuse, MakeRoot, RootFails, Return
<1> QED
  BY <1>1, InvariantHolds, PTL DEF Spec, NeverOverwritten

----------------------------------------------------------------------------
\* The gate before the generator.

\* The session's approval is one that was given and not used; what the one page that
\* shows plans shows is the plan, and what was approved.
GateInv ==
    /\ GateTypes
    /\ \A p \in Pages : ~button_disabled[p] => box[p]
    /\ \A p \in Pages : box[p] => ~box_disabled[p]
    /\ builds + (IF approved THEN 1 ELSE 0) <= grants
    /\ \A p \in Pages : Alone(p) =>
          /\ plan = shown[p]
          /\ approved => granted = plan
          /\ ~button_disabled[p] => approved
    /\ GeneratesShownPlan

\* What the controls of a page become, and those of the others.
LEMMA ControlsAre ==
    ASSUME GateTypes, NEW p \in Pages, NEW b \in BOOLEAN, NEW bd \in BOOLEAN, NEW gd \in BOOLEAN,
           Controls(p, b, bd, gd)
    PROVE  /\ box' \in [Pages -> BOOLEAN] /\ box_disabled' \in [Pages -> BOOLEAN]
           /\ button_disabled' \in [Pages -> BOOLEAN]
           /\ box'[p] = b /\ box_disabled'[p] = bd /\ button_disabled'[p] = gd
           /\ \A q \in Pages \ {p} :
                 /\ box'[q] = box[q] /\ box_disabled'[q] = box_disabled[q]
                 /\ button_disabled'[q] = button_disabled[q]
BY DEF GateTypes, Controls

\* A page that is not the only one cannot have enabled its box.
LEMMA EnabledIsAlone ==
    ASSUME GateInv, NEW p \in Pages, ~box_disabled[p]
    PROVE  plan # Nothing /\ shown[p] # Nothing /\ \A q \in Pages \ {p} : ~Alone(q)
BY DEF GateInv, GateTypes, Alone

LEMMA PreviewKeeps ==
    ASSUME GateInv, NEW p \in Pages, NEW i \in Intents, Preview(p, i)
    PROVE  GateInv'
<1>1. GateTypes /\ i # Nothing /\ i \in Intents
  BY StudioAssumption DEF GateInv, StudioAssumption
<1>2. /\ plan' = i /\ approved' = FALSE /\ shown' \in [Pages -> Intents \cup {Nothing}]
      /\ shown'[p] = i /\ \A q \in Pages \ {p} : shown'[q] = shown[q]
      /\ occupied' = occupied /\ grants' = grants /\ granted' = granted
      /\ builds' = builds /\ built' = built
  BY <1>1 DEF Preview, GateTypes, tallyVars
<1>3. /\ box' \in [Pages -> BOOLEAN] /\ box_disabled' \in [Pages -> BOOLEAN]
      /\ button_disabled' \in [Pages -> BOOLEAN]
      /\ box'[p] = FALSE /\ box_disabled'[p] = FALSE /\ button_disabled'[p] = TRUE
      /\ \A q \in Pages \ {p} :
            /\ box'[q] = box[q] /\ box_disabled'[q] = box_disabled[q]
            /\ button_disabled'[q] = button_disabled[q]
  BY <1>1, ControlsAre DEF Preview
<1>4. GateTypes'
  BY <1>1, <1>2, <1>3 DEF GateTypes
<1>5. \A q \in Pages : Alone(q)' => q = p /\ Alone(q)
  BY <1>1, <1>2 DEF Alone
<1>6. GeneratesShownPlan'
  BY <1>2, <1>5 DEF GateInv, GeneratesShownPlan
<1>. QED
  BY <1>1, <1>2, <1>3, <1>4, <1>5, <1>6 DEF GateInv, GateTypes

\* Who else has shown a plan is not changed.
LEMMA SameAlone == ASSUME shown' = shown PROVE \A q \in Pages : Alone(q)' <=> Alone(q)
BY DEF Alone

LEMMA PreviewRefusedKeeps ==
    ASSUME GateInv, NEW p \in Pages, PreviewRefused(p)
    PROVE  GateInv'
<1>1. /\ GateTypes /\ plan' = plan /\ approved' = approved /\ shown' = shown
      /\ occupied' = occupied /\ grants' = grants /\ granted' = granted
      /\ builds' = builds /\ built' = built
  BY DEF GateInv, PreviewRefused, sessionVars, tallyVars
<1>2. /\ box' \in [Pages -> BOOLEAN] /\ box_disabled' \in [Pages -> BOOLEAN]
      /\ button_disabled' \in [Pages -> BOOLEAN]
      /\ box'[p] = FALSE /\ box_disabled'[p] = TRUE /\ button_disabled'[p] = TRUE
      /\ \A q \in Pages \ {p} :
            /\ box'[q] = box[q] /\ box_disabled'[q] = box_disabled[q]
            /\ button_disabled'[q] = button_disabled[q]
  BY <1>1, ControlsAre DEF PreviewRefused
<1>3. GateTypes'
  BY <1>1, <1>2 DEF GateTypes
<1>4. \A q \in Pages : Alone(q)' <=> Alone(q)
  BY <1>1, SameAlone
<1>5. GeneratesShownPlan'
  BY <1>1, <1>4 DEF GateInv, GeneratesShownPlan
<1>. QED
  BY <1>1, <1>2, <1>3, <1>4, <1>5 DEF GateInv

LEMMA ApproveKeeps ==
    ASSUME GateInv, NEW p \in Pages, Approve(p)
    PROVE  GateInv'
<1>1. /\ GateTypes /\ plan # Nothing /\ shown[p] # Nothing /\ ~box_disabled[p]
      /\ \A q \in Pages \ {p} : ~Alone(q)
  BY EnabledIsAlone DEF GateInv, Approve
<1>0. /\ plan' = plan /\ approved' = TRUE /\ shown' = shown /\ occupied' = occupied
      /\ grants' = grants + 1 /\ grants < MaxGrants /\ granted' = shown[p]
      /\ builds' = builds /\ built' = built
      /\ Controls(p, TRUE, FALSE, FALSE)
  BY <1>1 DEF Approve
<1>2. /\ box' \in [Pages -> BOOLEAN] /\ box_disabled' \in [Pages -> BOOLEAN]
      /\ button_disabled' \in [Pages -> BOOLEAN]
      /\ box'[p] = TRUE /\ box_disabled'[p] = FALSE /\ button_disabled'[p] = FALSE
      /\ \A q \in Pages \ {p} :
            /\ box'[q] = box[q] /\ box_disabled'[q] = box_disabled[q]
            /\ button_disabled'[q] = button_disabled[q]
  BY <1>0, <1>1, ControlsAre
<1>3. GateTypes'
  BY <1>0, <1>1, <1>2, StudioAssumption DEF GateTypes, StudioAssumption
<1>4. \A q \in Pages : Alone(q)' <=> Alone(q)
  BY <1>0, SameAlone
<1>5. GeneratesShownPlan'
  BY <1>0, <1>4 DEF GateInv, GeneratesShownPlan
<1>6. builds + (IF approved THEN 1 ELSE 0) <= grants => builds + 1 <= grants + 1
  BY <1>1, StudioAssumption DEF GateTypes, StudioAssumption
<1>7. Alone(p) => plan = shown[p]
  BY DEF GateInv
<1>. QED
  BY <1>0, <1>1, <1>2, <1>3, <1>4, <1>5, <1>6, <1>7 DEF GateInv

LEMMA RevokeKeeps ==
    ASSUME GateInv, NEW p \in Pages, Revoke(p)
    PROVE  GateInv'
<1>1. /\ GateTypes /\ ~box_disabled[p] /\ \A q \in Pages \ {p} : ~Alone(q)
      /\ plan' = plan /\ approved' = FALSE /\ shown' = shown
      /\ occupied' = occupied /\ grants' = grants /\ granted' = granted
      /\ builds' = builds /\ built' = built
  BY EnabledIsAlone DEF GateInv, Revoke, tallyVars
<1>2. /\ box' \in [Pages -> BOOLEAN] /\ box_disabled' \in [Pages -> BOOLEAN]
      /\ button_disabled' \in [Pages -> BOOLEAN]
      /\ box'[p] = FALSE /\ box_disabled'[p] = FALSE /\ button_disabled'[p] = TRUE
      /\ \A q \in Pages \ {p} :
            /\ box'[q] = box[q] /\ box_disabled'[q] = box_disabled[q]
            /\ button_disabled'[q] = button_disabled[q]
  BY <1>1, ControlsAre DEF Revoke
<1>3. GateTypes'
  BY <1>1, <1>2 DEF GateTypes
<1>4. \A q \in Pages : Alone(q)' <=> Alone(q)
  BY <1>1, SameAlone
<1>5. GeneratesShownPlan'
  BY <1>1, <1>4 DEF GateInv, GeneratesShownPlan
<1>6. builds + 0 <= grants
  BY <1>1, StudioAssumption DEF GateInv, GateTypes, StudioAssumption
<1>. QED
  BY <1>1, <1>2, <1>3, <1>4, <1>5, <1>6 DEF GateInv

LEMMA GenerateKeeps ==
    ASSUME GateInv, NEW p \in Pages, Generate(p)
    PROVE  GateInv'
<1>0. ~button_disabled[p] /\ plan # Nothing /\ approved
  BY DEF Generate, Passes
<1>1. /\ GateTypes /\ ~box_disabled[p] /\ \A q \in Pages \ {p} : ~Alone(q)
      /\ plan' = plan /\ approved' = FALSE /\ shown' = shown
      /\ occupied' = occupied \cup {SlugOf[plan]} /\ grants' = grants /\ granted' = granted
      /\ builds' = builds + 1
      /\ built' = [intent |-> plan, shown |-> shown[p], granted |-> granted]
      /\ Controls(p, FALSE, FALSE, TRUE)
  <2>1. ~box_disabled[p]
    BY <1>0 DEF GateInv
  <2>2. box_disabled[p] = FALSE
    BY <2>1 DEF GateInv, GateTypes
  <2>. QED
    BY <2>1, <2>2, EnabledIsAlone DEF GateInv, Generate
<1>2. /\ box' \in [Pages -> BOOLEAN] /\ box_disabled' \in [Pages -> BOOLEAN]
      /\ button_disabled' \in [Pages -> BOOLEAN]
      /\ box'[p] = FALSE /\ box_disabled'[p] = FALSE /\ button_disabled'[p] = TRUE
      /\ \A q \in Pages \ {p} :
            /\ box'[q] = box[q] /\ box_disabled'[q] = box_disabled[q]
            /\ button_disabled'[q] = button_disabled[q]
  BY <1>1, ControlsAre
<1>3. GateTypes'
  <2>1. plan \in Intents
    BY <1>0, <1>1 DEF GateTypes
  <2>2. built' \in [intent : Intents \cup {Nothing}, shown : Intents \cup {Nothing},
                    granted : Intents \cup {Nothing}]
    BY <1>1 DEF GateTypes
  <2>3. occupied' \subseteq {SlugOf[i] : i \in Intents}
    <3>1. /\ occupied \subseteq {SlugOf[i] : i \in Intents}
          /\ SlugOf[plan] \in {SlugOf[i] : i \in Intents}
      BY <1>1, <2>1 DEF GateTypes
    <3>. QED
      BY <1>1, <3>1
  <2>4. approved' \in BOOLEAN /\ builds' \in Nat
    <3>1. builds \in Nat /\ builds' = builds + 1 /\ approved' = FALSE
      BY <1>1 DEF GateTypes
    <3>2. approved' \in BOOLEAN
      BY <3>1, Zenon
    <3>3. builds' \in Nat
      BY <3>1
    <3>. QED
      BY <3>2, <3>3
  <2>5. /\ \A q \in Pages : ~box_disabled'[q] => shown'[q] # Nothing
        /\ (\E q \in Pages : shown'[q] # Nothing) => plan' # Nothing
    BY <1>0, <1>1, <1>2, EnabledIsAlone DEF GateTypes
  <2>6. /\ plan \in Intents \cup {Nothing} /\ shown \in [Pages -> Intents \cup {Nothing}]
        /\ grants \in 0..MaxGrants /\ granted \in Intents \cup {Nothing}
    BY <1>1 DEF GateTypes
  <2>. QED
    BY <1>1, <1>2, <2>2, <2>3, <2>4, <2>5, <2>6 DEF GateTypes
<1>4. \A q \in Pages : Alone(q)' <=> Alone(q)
  BY <1>1, SameAlone
<1>5. GeneratesShownPlan'
  BY <1>0, <1>1, <1>4 DEF GateInv, GeneratesShownPlan
<1>6. builds + 1 + 0 <= grants
  BY <1>0, <1>1, StudioAssumption DEF GateInv, GateTypes, StudioAssumption
<1>. QED
  BY <1>1, <1>2, <1>3, <1>4, <1>5, <1>6 DEF GateInv

\* A step that touches the directories only.
LEMMA DirectoriesKeep ==
    ASSUME GateInv, UNCHANGED <<plan, approved, shown, box, box_disabled, button_disabled,
                                grants, granted, builds, built>>,
           occupied' \subseteq {SlugOf[i] : i \in Intents}
    PROVE  GateInv'
<1>1. GateTypes'
  BY DEF GateInv, GateTypes
<1>2. \A q \in Pages : Alone(q)' <=> Alone(q)
  BY SameAlone
<1>. QED
  BY <1>1, <1>2 DEF GateInv, GeneratesShownPlan

LEMMA GateStarts == GateInit => GateInv
<1>. SUFFICES ASSUME GateInit PROVE GateInv
  OBVIOUS
<1>1. GateTypes
  <2>1. built \in [intent : Intents \cup {Nothing}, shown : Intents \cup {Nothing},
                   granted : Intents \cup {Nothing}]
    BY DEF GateInit, NotBuilt
  <2>2. 0 \in 0..MaxGrants
    BY StudioAssumption DEF StudioAssumption
  <2>. QED
    BY <2>1, <2>2 DEF GateInit, GateTypes
<1>2. GeneratesShownPlan
  BY DEF GateInit, NotBuilt, GeneratesShownPlan
<1>. QED
  BY <1>1, <1>2 DEF GateInit, GateInv

LEMMA GateSteps == GateInv /\ [GateNext]_studioVars => GateInv'
<1>. SUFFICES ASSUME GateInv, [GateNext]_studioVars PROVE GateInv'
  OBVIOUS
<1>1. ASSUME NEW p \in Pages, GenerateFails(p) PROVE GateInv'
  <2>1. plan \in Intents
    BY <1>1 DEF GateInv, GateTypes, GenerateFails, Passes
  <2>2. occupied \cup {SlugOf[plan]} \subseteq {SlugOf[i] : i \in Intents}
    BY <2>1 DEF GateInv, GateTypes
  <2>. QED
    BY <1>1, <2>2, DirectoriesKeep DEF GenerateFails, sessionVars, controlVars, tallyVars
<1>2. ASSUME NEW p \in Pages, GenerateRefused(p) PROVE GateInv'
  <2>1. occupied \subseteq {SlugOf[i] : i \in Intents}
    BY DEF GateInv, GateTypes
  <2>. QED
    BY <1>2, <2>1, DirectoriesKeep
    DEF GenerateRefused, studioVars, sessionVars, controlVars, tallyVars
<1>3. ASSUME NEW s \in occupied, Remove(s) PROVE GateInv'
  <2>1. occupied \ {s} \subseteq {SlugOf[i] : i \in Intents}
    BY DEF GateInv, GateTypes
  <2>. QED
    BY <1>3, <2>1, DirectoriesKeep DEF Remove, sessionVars, controlVars, tallyVars
<1>4. CASE UNCHANGED studioVars
  <2>1. occupied \subseteq {SlugOf[i] : i \in Intents}
    BY DEF GateInv, GateTypes
  <2>. QED
    BY <1>4, <2>1, DirectoriesKeep DEF studioVars, sessionVars, controlVars, tallyVars
<1>. QED
  BY <1>1, <1>2, <1>3, <1>4, PreviewKeeps, PreviewRefusedKeeps, ApproveKeeps, RevokeKeeps,
     GenerateKeeps DEF GateNext

\* One approval serves for one project at most, whatever pages share the session; while one
\* page shows plans, what is generated is the plan it shows and somebody approved
\* (StudioSession, preview_plan, approval_changed, generate_project).
THEOREM GateIsApproved == GateSpec => []ProjectIsApproved
<1>1. GateInv => ProjectIsApproved
  <2>. SUFFICES ASSUME GateInv PROVE ProjectIsApproved
    OBVIOUS
  <2>1. builds \in Nat /\ grants \in Nat /\ builds + (IF approved THEN 1 ELSE 0) <= grants
    BY StudioAssumption DEF GateInv, GateTypes, StudioAssumption
  <2>2. builds <= grants
    BY <2>1
  <2>. QED
    BY <2>2 DEF GateInv, ProjectIsApproved, OneProjectPerApproval, ButtonMeansApproved
<1>. QED
  BY <1>1, GateStarts, GateSteps, PTL DEF GateSpec

----------------------------------------------------------------------------
\* The local workflows: every run has an invariant of its own, and a step of one keeps
\* that of the others.

\* What stop_reason and iteration are once the loop of a run has stopped.
StoppedRight(t) ==
    LET reached == request[t].pass_on <= request[t].max_iterations
    IN  /\ stop_reason[t] = IF reached THEN "criteria_validated" ELSE "max_iterations"
        /\ iteration[t] = IF reached THEN request[t].pass_on ELSE request[t].max_iterations

\* A run, at each point of it: how far its loop is, what it announced, and whether its
\* report is stored.
RunInv(t) ==
    /\ thread[t] \in {"idle", "submitted"} => iteration[t] = 0 /\ log[t] = {}
    /\ thread[t] = "cycling" =>
          /\ iteration[t] < request[t].pass_on /\ iteration[t] < request[t].max_iterations
          /\ "started" \in log[t] /\ log[t] \subseteq {"started", "iteration"}
    /\ thread[t] \in {"saving", "saved"} => log[t] = {"started", "iteration"}
    /\ thread[t] \in {"finishing", "clearing", "done"} =>
          log[t] = {"started", "iteration", "completed"}
    /\ thread[t] \in {"raised", "clearing_raised", "failed"} => "completed" \notin log[t]
    /\ thread[t] \in {"saving", "saved", "finishing", "clearing", "done"} => StoppedRight(t)
    /\ thread[t] \in {"saved", "finishing", "clearing", "done"} <=> Stored(t)
    /\ \A i \in Ids : row[i] = t => i = request[t].id

RunsInv ==
    /\ RunsTypes
    /\ IsFiniteSet(Started) /\ StartsAreApproved
    /\ \A t \in Threads : RunInv(t)

\* A run that a step does not concern.
RunKept(u) ==
    /\ thread'[u] = thread[u] /\ request'[u] = request[u] /\ iteration'[u] = iteration[u]
    /\ stop_reason'[u] = stop_reason[u] /\ log'[u] = log[u]
    /\ Stored(u)' <=> Stored(u)
    /\ \A i \in Ids : row'[i] = u => row[i] = u

LEMMA OtherRunsKeep ==
    ASSUME NEW u \in Threads, RunInv(u), RunKept(u)
    PROVE  RunInv(u)'
<1>1. StoppedRight(u)' <=> StoppedRight(u)
  BY DEF RunKept, StoppedRight
<1>. QED
  BY <1>1 DEF RunInv, RunKept

\* The parts of a request are within the bounds.
LEMMA RequestIs ==
    ASSUME NEW r \in Request
    PROVE  /\ r.id \in Ids /\ r.pass_on \in Nat /\ r.max_iterations \in Nat
           /\ 1 <= r.pass_on /\ r.pass_on <= Limit
           /\ 1 <= r.max_iterations /\ r.max_iterations <= Limit /\ Limit \in Nat
BY StudioWorkflowAssumption DEF Request, StudioWorkflowAssumption

\* A step of a run that was started starts no other, and gives no approval.
LEMMA StartsKept ==
    ASSUME RunsInv, NEW t \in Threads, thread[t] # "idle", NEW l, l # "idle",
           thread' = [thread EXCEPT ![t] = l], run_box' = run_box \/ run_box' = FALSE,
           approvals' = approvals
    PROVE  IsFiniteSet(Started)' /\ StartsAreApproved'
<1>1. Started' = Started
  BY DEF Started, RunsInv, RunsTypes
<1>2. Cardinality(Started) \in Nat /\ approvals \in Nat
  BY FS_CardinalityType, StudioWorkflowAssumption
  DEF RunsInv, RunsTypes, StudioWorkflowAssumption
<1>3. Cardinality(Started) + (IF run_box THEN 1 ELSE 0) <= approvals
  BY DEF RunsInv, StartsAreApproved
<1>4. Cardinality(Started) + (IF run_box' THEN 1 ELSE 0) <= approvals
  BY <1>2, <1>3
<1>. QED
  BY <1>1, <1>4 DEF RunsInv, StartsAreApproved

\* A step of one thread that leaves the table and the requests.
LEMMA ThreadKeeps ==
    ASSUME RunsInv, NEW t \in Threads, thread[t] # "idle", NEW l, l # "idle",
           l \in {"idle", "submitted", "cycling", "saving", "saved", "finishing",
                  "clearing", "raised", "clearing_raised", "done", "failed"},
           thread' = [thread EXCEPT ![t] = l],
           run_box' = run_box \/ run_box' = FALSE,
           run_disabled' = run_disabled \/ run_disabled' = TRUE,
           request' = request, row' = row, approvals' = approvals, overwritten' = overwritten,
           iteration' \in [Threads -> 0..Limit],
           stop_reason' \in [Threads -> Reasons \cup {"none"}],
           log' \in [Threads -> SUBSET {"started", "iteration", "completed", "failed"}],
           \A u \in Threads : u # t => /\ iteration'[u] = iteration[u]
                                      /\ stop_reason'[u] = stop_reason[u]
                                      /\ log'[u] = log[u],
           RunInv(t)'
    PROVE  RunsInv'
<1>1. RunsTypes'
  BY DEF RunsInv, RunsTypes
<1>2. IsFiniteSet(Started)' /\ StartsAreApproved'
  BY StartsKept
<1>3. ASSUME NEW u \in Threads, u # t PROVE RunInv(u)'
  <2>1. /\ thread'[u] = thread[u] /\ request'[u] = request[u] /\ iteration'[u] = iteration[u]
        /\ stop_reason'[u] = stop_reason[u] /\ log'[u] = log[u]
    BY <1>3 DEF RunsInv, RunsTypes
  <2>2. Stored(u)' <=> Stored(u)
    BY DEF Stored
  <2>. QED
    BY <2>1, <2>2, OtherRunsKeep DEF RunKept, RunsInv
<1>. QED
  BY <1>1, <1>2, <1>3 DEF RunsInv

\* The state of a thread that its own step has left, but for the point it is at.
LEMMA OwnState ==
    ASSUME RunsInv, NEW t \in Threads
    PROVE  /\ RunInv(t) /\ request[t] \in Request /\ iteration[t] \in 0..Limit
           /\ stop_reason[t] \in Reasons \cup {"none"}
           /\ log[t] \in SUBSET {"started", "iteration", "completed", "failed"}
           /\ \A l : [thread EXCEPT ![t] = l][t] = l
           /\ iteration = [iteration EXCEPT ![t] = iteration[t]]
           /\ stop_reason = [stop_reason EXCEPT ![t] = stop_reason[t]]
           /\ log = [log EXCEPT ![t] = log[t]]
           /\ \A i : [iteration EXCEPT ![t] = i][t] = i
           /\ \A r : [stop_reason EXCEPT ![t] = r][t] = r
           /\ \A g : [log EXCEPT ![t] = g][t] = g
BY DEF RunsInv, RunsTypes

LEMMA OpenKeeps ==
    ASSUME RunsInv, NEW t \in Threads, Open(t) \/ OpenFails(t)
    PROVE  RunsInv'
<1>1. PICK l \in {"cycling", "raised"} :
        /\ thread[t] = "submitted" /\ thread' = [thread EXCEPT ![t] = l]
        /\ log' = [log EXCEPT ![t] = log[t] \cup {"started"}]
        /\ run_box' = run_box /\ run_disabled' = run_disabled
        /\ request' = request /\ iteration' = iteration /\ stop_reason' = stop_reason
        /\ row' = row /\ approvals' = approvals /\ overwritten' = overwritten
  BY DEF Open, OpenFails, Goto, Publish, pageVars
<1>2. RunInv(t) /\ request[t] \in Request
  BY OwnState
<1>3. /\ log[t] = {} /\ iteration[t] = 0 /\ ~Stored(t)
      /\ \A i \in Ids : row[i] = t => i = request[t].id
  BY <1>1, <1>2 DEF RunInv
<1>4. thread'[t] = l /\ log'[t] = {"started"} /\ iteration'[t] = 0 /\ request'[t] = request[t]
  BY <1>1, <1>3, OwnState
<1>5. Stored(t)' <=> Stored(t)
  BY <1>1 DEF Stored
<1>6. 0 < request[t].pass_on /\ 0 < request[t].max_iterations
  BY <1>2, RequestIs
<1>7. RunInv(t)'
  BY <1>1, <1>3, <1>4, <1>5, <1>6 DEF RunInv
<1>8. /\ iteration' \in [Threads -> 0..Limit]
      /\ stop_reason' \in [Threads -> Reasons \cup {"none"}]
      /\ log' \in [Threads -> SUBSET {"started", "iteration", "completed", "failed"}]
      /\ \A u \in Threads : u # t => /\ iteration'[u] = iteration[u]
                                 /\ stop_reason'[u] = stop_reason[u]
                                 /\ log'[u] = log[u]
  BY <1>1 DEF RunsInv, RunsTypes
<1>. QED
  BY <1>1, <1>7, <1>8, ThreadKeeps

LEMMA CycleStepKeeps ==
    ASSUME RunsInv, NEW t \in Threads, Cycle(t)
    PROVE  RunsInv'
<1>1. /\ thread[t] = "cycling"
      /\ thread' = [thread EXCEPT ![t] = IF Verdict(t) = "none" THEN "cycling" ELSE "saving"]
      /\ log' = [log EXCEPT ![t] = log[t] \cup {"iteration"}]
      /\ iteration' = [iteration EXCEPT ![t] = iteration[t] + 1]
      /\ stop_reason' = [stop_reason EXCEPT ![t] = Verdict(t)]
      /\ run_box' = run_box /\ run_disabled' = run_disabled /\ request' = request
      /\ row' = row /\ approvals' = approvals /\ overwritten' = overwritten
  BY DEF Cycle, Goto, Publish, pageVars
<1>2. PICK n \in Nat, p \in Nat, m \in Nat :
         /\ n = iteration[t] /\ p = request[t].pass_on /\ m = request[t].max_iterations
         /\ n < p /\ n < m /\ p <= Limit /\ m <= Limit /\ Limit \in Nat
  <2>1. request[t] \in Request /\ iteration[t] \in Nat /\ RunInv(t)
    BY OwnState
  <2>. QED
    BY <1>1, <2>1, RequestIs DEF RunInv
<1>3. /\ RunInv(t) /\ ~Stored(t) /\ \A i \in Ids : row[i] = t => i = request[t].id
      /\ log[t] \cup {"iteration"} = {"started", "iteration"}
  BY <1>1, OwnState DEF RunInv
<1>4. Stored(t)' <=> Stored(t)
  BY <1>1 DEF Stored
<1>5. Verdict(t) = IF n + 1 >= p THEN "criteria_validated"
                   ELSE IF n + 1 >= m THEN "max_iterations" ELSE "none"
  <2>1. CASE n + 1 >= p
    BY <1>2, <2>1 DEF Verdict
  <2>2. CASE n + 1 < p /\ n + 1 >= m
    BY <1>2, <2>2 DEF Verdict
  <2>3. CASE n + 1 < p /\ ~(n + 1 >= m)
    BY <1>2, <2>3 DEF Verdict
  <2>. QED
    BY <1>2, <2>1, <2>2, <2>3
<1>6. PICK v : v = Verdict(t)
  OBVIOUS
<1>7. /\ thread'[t] = (IF v = "none" THEN "cycling" ELSE "saving")
      /\ log'[t] = {"started", "iteration"} /\ iteration'[t] = n + 1 /\ stop_reason'[t] = v
      /\ request'[t] = request[t]
  BY <1>1, <1>2, <1>3, <1>6 DEF RunsInv, RunsTypes
<1>8. RunInv(t)'
  <2>1. CASE v = "none"
    <3>1. n + 1 < p /\ n + 1 < m
      BY <1>2, <1>5, <1>6, <2>1
    <3>. QED
      BY <1>1, <1>2, <1>3, <1>4, <1>7, <2>1, <3>1 DEF RunInv
  <2>2. CASE v # "none"
    <3>1. /\ v = IF p <= m THEN "criteria_validated" ELSE "max_iterations"
          /\ n + 1 = IF p <= m THEN p ELSE m
      BY <1>2, <1>5, <1>6, <2>2
    <3>2. StoppedRight(t)'
      BY <1>2, <1>7, <3>1 DEF StoppedRight
    <3>. QED
      BY <1>1, <1>3, <1>4, <1>7, <2>2, <3>2 DEF RunInv
  <2>. QED
    BY <2>1, <2>2
<1>9. n + 1 \in 0..Limit /\ v \in Reasons \cup {"none"}
  BY <1>2, <1>5, <1>6 DEF Reasons
<1>10. PICK l : l = IF v = "none" THEN "cycling" ELSE "saving"
  OBVIOUS
<1>11. thread' = [thread EXCEPT ![t] = l] /\ l \in {"cycling", "saving"} /\ thread[t] # "idle"
  BY <1>1, <1>6, <1>10
<1>12. /\ iteration' \in [Threads -> 0..Limit]
       /\ stop_reason' \in [Threads -> Reasons \cup {"none"}]
       /\ log' \in [Threads -> SUBSET {"started", "iteration", "completed", "failed"}]
       /\ \A u \in Threads : u # t => /\ iteration'[u] = iteration[u]
                                  /\ stop_reason'[u] = stop_reason[u]
                                  /\ log'[u] = log[u]
  BY <1>1, <1>2, <1>3, <1>6, <1>9 DEF RunsInv, RunsTypes
<1>. QED
  BY <1>1, <1>8, <1>11, <1>12, ThreadKeeps

LEMMA SaveFailsKeeps ==
    ASSUME RunsInv, NEW t \in Threads, SaveFails(t)
    PROVE  RunsInv'
<1>1. /\ thread[t] = "saving" /\ thread' = [thread EXCEPT ![t] = "raised"]
      /\ log' = [log EXCEPT ![t] = log[t] \cup {"failed"}]
      /\ run_box' = run_box /\ run_disabled' = run_disabled
      /\ request' = request /\ iteration' = iteration /\ stop_reason' = stop_reason
      /\ row' = row /\ approvals' = approvals /\ overwritten' = overwritten
  BY DEF SaveFails, Goto, Publish, pageVars
<1>2. /\ log[t] = {"started", "iteration"} /\ ~Stored(t)
      /\ \A i \in Ids : row[i] = t => i = request[t].id
  BY <1>1, OwnState DEF RunInv
<1>3. /\ thread'[t] = "raised" /\ log'[t] = {"started", "iteration", "failed"}
      /\ request'[t] = request[t]
  BY <1>1, <1>2 DEF RunsInv, RunsTypes
<1>4. Stored(t)' <=> Stored(t)
  BY <1>1 DEF Stored
<1>5. RunInv(t)'
  BY <1>1, <1>2, <1>3, <1>4 DEF RunInv
<1>6. /\ iteration' \in [Threads -> 0..Limit]
      /\ stop_reason' \in [Threads -> Reasons \cup {"none"}]
      /\ log' \in [Threads -> SUBSET {"started", "iteration", "completed", "failed"}]
      /\ \A u \in Threads : u # t => /\ iteration'[u] = iteration[u]
                                 /\ stop_reason'[u] = stop_reason[u]
                                 /\ log'[u] = log[u]
  BY <1>1 DEF RunsInv, RunsTypes
<1>. QED
  BY <1>1, <1>5, <1>6, ThreadKeeps

LEMMA CompleteKeeps ==
    ASSUME RunsInv, NEW t \in Threads, Complete(t)
    PROVE  RunsInv'
<1>1. /\ thread[t] = "saved" /\ thread' = [thread EXCEPT ![t] = "finishing"]
      /\ log' = [log EXCEPT ![t] = log[t] \cup {"completed"}]
      /\ run_box' = run_box /\ run_disabled' = run_disabled
      /\ request' = request /\ iteration' = iteration /\ stop_reason' = stop_reason
      /\ row' = row /\ approvals' = approvals /\ overwritten' = overwritten
  BY DEF Complete, Goto, Publish, pageVars
<1>2. /\ log[t] = {"started", "iteration"} /\ Stored(t) /\ StoppedRight(t)
      /\ \A i \in Ids : row[i] = t => i = request[t].id
  BY <1>1, OwnState DEF RunInv
<1>3. /\ thread'[t] = "finishing" /\ log'[t] = {"started", "iteration", "completed"}
      /\ request'[t] = request[t]
  BY <1>1, <1>2 DEF RunsInv, RunsTypes
<1>4. (Stored(t)' <=> Stored(t)) /\ (StoppedRight(t)' <=> StoppedRight(t))
  BY <1>1 DEF Stored, StoppedRight
<1>5. RunInv(t)'
  BY <1>1, <1>2, <1>3, <1>4 DEF RunInv
<1>6. /\ iteration' \in [Threads -> 0..Limit]
      /\ stop_reason' \in [Threads -> Reasons \cup {"none"}]
      /\ log' \in [Threads -> SUBSET {"started", "iteration", "completed", "failed"}]
      /\ \A u \in Threads : u # t => /\ iteration'[u] = iteration[u]
                                 /\ stop_reason'[u] = stop_reason[u]
                                 /\ log'[u] = log[u]
  BY <1>1 DEF RunsInv, RunsTypes
<1>. QED
  BY <1>1, <1>5, <1>6, ThreadKeeps

LEMMA ClearKeeps ==
    ASSUME RunsInv, NEW t \in Threads, ClearBox(t) \/ DisableButton(t)
    PROVE  RunsInv'
<1>1. PICK l \in {"clearing", "clearing_raised", "done", "failed"} :
        /\ thread[t] \in {"finishing", "raised", "clearing", "clearing_raised"}
        /\ l \in {"clearing_raised", "failed"} <=> thread[t] \in {"raised", "clearing_raised"}
        /\ thread' = [thread EXCEPT ![t] = l]
        /\ run_box' = run_box \/ run_box' = FALSE
        /\ run_disabled' = run_disabled \/ run_disabled' = TRUE
        /\ log' = log
        /\ request' = request /\ iteration' = iteration /\ stop_reason' = stop_reason
        /\ row' = row /\ approvals' = approvals /\ overwritten' = overwritten
  <2>1. CASE ClearBox(t)
    BY <2>1 DEF ClearBox, Goto
  <2>2. CASE DisableButton(t)
    BY <2>2 DEF DisableButton, Goto
  <2>. QED
    BY <2>1, <2>2
<1>2. RunInv(t)
  BY OwnState
<1>3. thread'[t] = l /\ request'[t] = request[t] /\ log'[t] = log[t]
  BY <1>1, OwnState
<1>4. (Stored(t)' <=> Stored(t)) /\ (StoppedRight(t)' <=> StoppedRight(t))
  BY <1>1 DEF Stored, StoppedRight
<1>5. RunInv(t)'
  BY <1>1, <1>2, <1>3, <1>4 DEF RunInv
<1>6. /\ iteration' \in [Threads -> 0..Limit]
      /\ stop_reason' \in [Threads -> Reasons \cup {"none"}]
      /\ log' \in [Threads -> SUBSET {"started", "iteration", "completed", "failed"}]
      /\ \A u \in Threads : u # t => /\ iteration'[u] = iteration[u]
                                 /\ stop_reason'[u] = stop_reason[u]
                                 /\ log'[u] = log[u]
  BY <1>1 DEF RunsInv, RunsTypes
<1>. QED
  BY <1>1, <1>5, <1>6, ThreadKeeps

LEMMA SaveKeeps ==
    ASSUME RunsInv, NEW t \in Threads, Save(t)
    PROVE  RunsInv'
<1>1. /\ thread[t] = "saving" /\ thread' = [thread EXCEPT ![t] = "saved"]
      /\ row' = [row EXCEPT ![request[t].id] = t]
      /\ overwritten' = overwritten \cup ({row[request[t].id]} \ {NoRun})
      /\ log' = log /\ run_box' = run_box /\ run_disabled' = run_disabled
      /\ request' = request /\ iteration' = iteration /\ stop_reason' = stop_reason
      /\ approvals' = approvals
  BY DEF Save, Goto, pageVars
<1>2. request[t].id \in Ids /\ row \in [Ids -> Threads \cup {NoRun}] /\ RunsTypes
  BY OwnState, RequestIs DEF RunsInv, RunsTypes
<1>3. /\ row'[request[t].id] = t /\ \A i \in Ids : i # request[t].id => row'[i] = row[i]
      /\ row' \in [Ids -> Threads \cup {NoRun}]
  BY <1>1, <1>2
<1>4. overwritten' \subseteq Threads
  BY <1>1, <1>2 DEF RunsTypes
<1>5. RunsTypes'
  BY <1>1, <1>2, <1>3, <1>4 DEF RunsTypes
<1>6. IsFiniteSet(Started)' /\ StartsAreApproved'
  BY <1>1, StartsKept
<1>7. RunInv(t)'
  <2>1. /\ RunInv(t) /\ log[t] = {"started", "iteration"} /\ ~Stored(t) /\ StoppedRight(t)
        /\ \A i \in Ids : row[i] = t => i = request[t].id
    BY <1>1, OwnState DEF RunInv
  <2>2. thread'[t] = "saved" /\ request'[t] = request[t] /\ log'[t] = log[t]
    BY <1>1, OwnState
  <2>3. Stored(t)'
    BY <1>3, <2>2 DEF Stored
  <2>4. StoppedRight(t)'
    BY <1>1, <2>1 DEF StoppedRight
  <2>5. \A i \in Ids : row'[i] = t => i = request[t].id
    BY <1>3, <2>1
  <2>. QED
    BY <2>1, <2>2, <2>3, <2>4, <2>5 DEF RunInv
<1>8. ASSUME NEW u \in Threads, u # t PROVE RunInv(u)'
  <2>1. /\ thread'[u] = thread[u] /\ request'[u] = request[u] /\ iteration'[u] = iteration[u]
        /\ stop_reason'[u] = stop_reason[u] /\ log'[u] = log[u]
    BY <1>1, <1>2, <1>8 DEF RunsTypes
  <2>2. RunInv(u) /\ request[u].id \in Ids /\ u # NoRun
    BY OwnState, RequestIs, StudioWorkflowAssumption DEF StudioWorkflowAssumption
  <2>3. \A i \in Ids : row'[i] = u => row[i] = u
    BY <1>3, <1>8
  <2>4. u \in overwritten' <=> u \in overwritten \/ row[request[t].id] = u
    BY <1>1, <2>2
  <2>5. row[request[t].id] = u => request[t].id = request[u].id
    BY <1>2, <2>2 DEF RunInv
  <2>6. Stored(u)' <=> Stored(u)
    BY <1>2, <1>3, <1>8, <2>1, <2>2, <2>4, <2>5 DEF Stored
  <2>. QED
    BY <2>1, <2>2, <2>3, <2>6, OtherRunsKeep DEF RunKept
<1>. QED
  BY <1>5, <1>6, <1>7, <1>8 DEF RunsInv

LEMMA StartKeeps ==
    ASSUME RunsInv, NEW t \in Threads, NEW r \in Request, Start(t, r)
    PROVE  RunsInv'
<1>1. /\ run_box /\ thread[t] = "idle" /\ thread' = [thread EXCEPT ![t] = "submitted"]
      /\ run_box' = FALSE /\ run_disabled' = TRUE
      /\ request' = [request EXCEPT ![t] = r]
      /\ log' = log /\ iteration' = iteration /\ stop_reason' = stop_reason
      /\ row' = row /\ approvals' = approvals /\ overwritten' = overwritten
  BY DEF Start, Goto
<1>2. RunsTypes
  BY DEF RunsInv
<1>3. RunsTypes'
  BY <1>1, <1>2 DEF RunsTypes
<1>4. IsFiniteSet(Started)' /\ StartsAreApproved'
  <2>1. Started' = Started \cup {t} /\ t \notin Started
    BY <1>1, <1>2 DEF Started, RunsTypes
  <2>2. IsFiniteSet(Started) /\ Cardinality(Started) + 1 <= approvals
    BY <1>1 DEF RunsInv, StartsAreApproved
  <2>3. /\ IsFiniteSet(Started \cup {t})
        /\ Cardinality(Started \cup {t}) = Cardinality(Started) + 1
        /\ Cardinality(Started) \in Nat
    BY <2>1, <2>2, FS_AddElement, FS_CardinalityType
  <2>4. approvals \in Nat
    BY <1>2, StudioWorkflowAssumption DEF RunsTypes, StudioWorkflowAssumption
  <2>5. Cardinality(Started)' = Cardinality(Started) + 1 /\ IsFiniteSet(Started)'
    BY <2>1, <2>3
  <2>. QED
    BY <1>1, <2>2, <2>3, <2>4, <2>5 DEF StartsAreApproved
<1>5. RunInv(t)'
  <2>1. RunInv(t) /\ iteration[t] = 0 /\ log[t] = {} /\ ~Stored(t)
    BY <1>1, OwnState DEF RunInv
  <2>2. thread'[t] = "submitted"
    BY <1>1, OwnState
  <2>3. \A i \in Ids : row[i] # t
    BY <2>1 DEF RunInv, Stored
  <2>4. r.id \in Ids /\ request'[t] = r
    BY <1>1, <1>2, RequestIs DEF RunsTypes
  <2>5. ~Stored(t)'
    BY <1>1, <2>1, <2>3, <2>4 DEF Stored
  <2>. QED
    BY <1>1, <2>1, <2>2, <2>3, <2>5 DEF RunInv
<1>6. ASSUME NEW u \in Threads, u # t PROVE RunInv(u)'
  <2>1. thread'[u] = thread[u] /\ request'[u] = request[u]
    BY <1>1, <1>2, <1>6 DEF RunsTypes
  <2>2. Stored(u)' <=> Stored(u)
    BY <1>1, <2>1 DEF Stored
  <2>. QED
    BY <1>1, <2>1, <2>2, OtherRunsKeep DEF RunKept, RunsInv
<1>. QED
  BY <1>3, <1>4, <1>5, <1>6 DEF RunsInv

\* A step that leaves the runs alone.
LEMMA RunsKept ==
    ASSUME RunsInv, UNCHANGED <<threadVars, row, overwritten>>,
           run_box' \in BOOLEAN, run_disabled' \in BOOLEAN, approvals' \in 0..MaxApprovals,
           Cardinality(Started) + (IF run_box' THEN 1 ELSE 0) <= approvals'
    PROVE  RunsInv'
<1>1. /\ thread' = thread /\ request' = request /\ log' = log /\ iteration' = iteration
      /\ stop_reason' = stop_reason /\ row' = row /\ overwritten' = overwritten
  BY DEF threadVars
<1>2. RunsTypes'
  BY <1>1 DEF RunsInv, RunsTypes
<1>3. IsFiniteSet(Started)' /\ StartsAreApproved'
  BY <1>1 DEF RunsInv, Started, StartsAreApproved
<1>4. ASSUME NEW u \in Threads PROVE RunInv(u)'
  <2>1. Stored(u)' <=> Stored(u)
    BY <1>1 DEF Stored
  <2>. QED
    BY <1>1, <2>1, OtherRunsKeep DEF RunKept, RunsInv
<1>. QED
  BY <1>2, <1>3, <1>4 DEF RunsInv

LEMMA ToggleKeeps == RunsInv /\ Toggle => RunsInv'
<1>. SUFFICES ASSUME RunsInv, Toggle PROVE RunsInv'
  OBVIOUS
<1>1. run_box \in BOOLEAN /\ approvals \in 0..MaxApprovals /\ MaxApprovals \in Nat
  BY StudioWorkflowAssumption DEF RunsInv, RunsTypes, StudioWorkflowAssumption
<1>2. Cardinality(Started) \in Nat /\ Cardinality(Started) + (IF run_box THEN 1 ELSE 0) <= approvals
  BY FS_CardinalityType DEF RunsInv, StartsAreApproved
<1>3. /\ UNCHANGED <<threadVars, row, overwritten>>
      /\ run_box' = ~run_box /\ run_disabled' = run_box
      /\ run_box \/ approvals < MaxApprovals
      /\ approvals' = IF run_box THEN approvals ELSE approvals + 1
  BY DEF Toggle
<1>4. /\ approvals' \in 0..MaxApprovals
      /\ Cardinality(Started) + (IF run_box' THEN 1 ELSE 0) <= approvals'
  BY <1>1, <1>2, <1>3
<1>5. run_box' \in BOOLEAN /\ run_disabled' \in BOOLEAN
  BY <1>1, <1>3
<1>. QED
  BY <1>3, <1>4, <1>5, RunsKept

\* A request of one cycle is within the bounds, which the form of the page requires.
LEMMA RequestsStart ==
    ASSUME RunsInit
    PROVE  request \in [Threads -> Request]
<1>1. \A i \in Ids : [id |-> i, pass_on |-> 1, max_iterations |-> 1] \in Request
  BY StudioWorkflowAssumption DEF StudioWorkflowAssumption, Request
<1>. QED
  BY <1>1 DEF RunsInit

LEMMA RunsStart == RunsInit => RunsInv
<1>. SUFFICES ASSUME RunsInit PROVE RunsInv
  OBVIOUS
<1>1. Started = {}
  BY DEF RunsInit, Started
<1>2. IsFiniteSet(Started) /\ Cardinality(Started) = 0
  BY <1>1, FS_EmptySet
<1>3. \A i \in Ids : row[i] = NoRun /\ i \in Ids
  BY DEF RunsInit
<1>4. RunsTypes
  <2>1. 0 \in 0..Limit /\ 0 \in 0..MaxApprovals
    BY StudioWorkflowAssumption DEF StudioWorkflowAssumption
  <2>2. log \in [Threads -> SUBSET {"started", "iteration", "completed", "failed"}]
    BY DEF RunsInit
  <2>3. row \in [Ids -> Threads \cup {NoRun}]
    BY DEF RunsInit
  <2>. QED
    BY <2>1, <2>2, <2>3, RequestsStart DEF RunsInit, RunsTypes
<1>5. ASSUME NEW t \in Threads PROVE RunInv(t)
  <2>1. request[t].id \in Ids
    BY <1>4, RequestIs DEF RunsTypes
  <2>2. ~Stored(t)
    BY <1>3, <2>1, StudioWorkflowAssumption DEF RunsInit, Stored, StudioWorkflowAssumption
  <2>3. \A i \in Ids : row[i] # t
    BY <1>3, StudioWorkflowAssumption DEF StudioWorkflowAssumption
  <2>. QED
    BY <2>2, <2>3 DEF RunsInit, RunInv
<1>6. StartsAreApproved
  BY <1>2 DEF RunsInit, StartsAreApproved
<1>. QED
  BY <1>2, <1>4, <1>5, <1>6 DEF RunsInv

LEMMA RunsStep == RunsInv /\ [RunsNext]_studioWorkflowVars => RunsInv'
<1>1. RunsInv /\ UNCHANGED studioWorkflowVars => RunsInv'
  <2>. SUFFICES ASSUME RunsInv, UNCHANGED studioWorkflowVars PROVE RunsInv'
    OBVIOUS
  <2>1. /\ UNCHANGED <<threadVars, row, overwritten>>
        /\ run_box' = run_box /\ run_disabled' = run_disabled /\ approvals' = approvals
    BY DEF studioWorkflowVars, pageVars
  <2>. QED
    BY <2>1, RunsKept DEF RunsInv, RunsTypes, StartsAreApproved
<1>2. RunsInv /\ RunsNext => RunsInv'
  BY <1>1, ToggleKeeps, StartKeeps, OpenKeeps, CycleStepKeeps, SaveKeeps, SaveFailsKeeps,
     CompleteKeeps, ClearKeeps DEF RunsNext, Run, StartRefused
<1>. QED
  BY <1>1, <1>2

\* What a run announced and stored, from the point it is at.
LEMMA RunsAreRight == RunsInv => ApprovalIsSingleUse /\ ReportIsTheRuns
<1>. SUFFICES ASSUME RunsInv PROVE ApprovalIsSingleUse /\ ReportIsTheRuns
  OBVIOUS
<1>1. ReportsAreStored
  BY DEF RunsInv, RunInv, StoppedRight, ReportsAreStored
<1>2. ASSUME NEW t \in Threads
      PROVE  /\ "completed" \in log[t] => Stored(t)
             /\ "failed" \in log[t] => ~Stored(t)
             /\ thread[t] = "done" => {"started", "iteration", "completed"} = log[t]
  <2>1. RunInv(t)
    BY DEF RunsInv
  <2>2. thread[t] \in {"idle", "submitted", "cycling", "saving", "saved", "finishing",
                       "clearing", "raised", "clearing_raised", "done", "failed"}
    BY DEF RunsInv, RunsTypes
  <2>. QED
    BY <2>1, <2>2 DEF RunInv
<1>. QED
  BY <1>1, <1>2 DEF RunsInv, ApprovalIsSingleUse, ReportIsTheRuns, AnnouncedAsItEnded

\* start_local_workflow takes the approval away before its thread runs, so that an
\* approval starts one run, whatever the finally of execute_local_workflow clears later.
THEOREM RunsAreApproved == RunsSpec => []ApprovalIsSingleUse
<1>1. RunsInv => ApprovalIsSingleUse
  BY RunsAreRight
<1>. QED
  BY <1>1, RunsStart, RunsStep, PTL DEF RunsSpec

\* LocalWorkflowRunner.run saves the report of the loop it ran, which stopped where its
\* request says, and announces the run as it ended.
THEOREM ReportsAreTheRuns == RunsSpec => []ReportIsTheRuns
<1>1. RunsInv => ReportIsTheRuns
  BY RunsAreRight
<1>. QED
  BY <1>1, RunsStart, RunsStep, PTL DEF RunsSpec

----------------------------------------------------------------------------
\* The history.

\* The report a card is about is one that was stored under its id.
Known(card) ==
    /\ request[card.run].id = card.id
    /\ row[card.id] = card.run \/ (card.run \in overwritten /\ row[card.id] # NoRun)

\* The card of a run, and whether a refresh under way will show it.
Card(t) == [id |-> request[t].id, run |-> t]

Coming(t) ==
    \E u \in Readers :
        refresh[u] = "reading" \/ (refresh[u] = "showing" /\ Card(t) \in found[u])

\* A run and its refresh: there is a table to read, and the report it stored is found,
\* and then shown until another refresh is about to show it, or could not read it.
ListedInv(t) ==
    /\ thread[t] \in {"cycling", "saving", "saved", "finishing", "clearing", "done"} =>
          database = "ready"
    /\ refresh[t] # "none" => thread[t] \in {"finishing", "clearing", "done"}
    /\ thread[t] \in {"clearing", "done"} => refresh[t] = "shown"
    /\ row[request[t].id] = t =>
          /\ refresh[t] = "showing" => Card(t) \in found[t]
          /\ refresh[t] = "shown" => unread \/ Card(t) \in view \/ Coming(t)

HistoryInv ==
    /\ RunsInv /\ HistoryTypeOK
    /\ refresh[Page] # "shown"
    /\ \A card \in view \cup ({details} \ {NoRun}) : Known(card)
    /\ \A u \in Readers : \A card \in found[u] : Known(card)
    /\ \A t \in Threads : ListedInv(t)

\* A report that was stored stays stored, or is replaced by another of its id.
LEMMA KnownStays ==
    ASSUME RunsInv, [RunsNext]_studioWorkflowVars, NEW card \in Cards, Known(card)
    PROVE  Known(card)'
<1>1. /\ card.id \in Ids /\ card.run \in Threads /\ card.run # NoRun
      /\ row \in [Ids -> Threads \cup {NoRun}] /\ request \in [Threads -> Request]
      /\ RunInv(card.run)
  BY StudioWorkflowAssumption DEF Cards, RunsInv, RunsTypes, StudioWorkflowAssumption
<1>2. Stored(card.run)
  BY DEF Known, Stored
<1>3. CASE UNCHANGED <<request, row, overwritten>>
  BY <1>3 DEF Known
<1>4. ASSUME NEW t \in Threads, Save(t)
      PROVE  Known(card)'
  <2>1. /\ row' = [row EXCEPT ![request[t].id] = t]
        /\ overwritten' = overwritten \cup ({row[request[t].id]} \ {NoRun})
        /\ request' = request /\ request[t].id \in Ids /\ t # NoRun
    BY <1>1, <1>4, RequestIs, StudioWorkflowAssumption DEF Save, StudioWorkflowAssumption
  <2>2. CASE request[t].id = card.id
    <3>1. row'[card.id] = t /\ (card.run \in overwritten' \/ card.run = t)
      BY <1>1, <2>1, <2>2 DEF Known
    <3>. QED
      BY <2>1, <3>1 DEF Known
  <2>3. CASE request[t].id # card.id
    <3>1. row'[card.id] = row[card.id]
      BY <1>1, <2>1, <2>3
    <3>. QED
      BY <2>1, <3>1 DEF Known
  <2>. QED
    BY <2>2, <2>3
<1>5. ASSUME NEW t \in Threads, NEW r \in Request, Start(t, r)
      PROVE  Known(card)'
  <2>1. /\ row' = row /\ overwritten' = overwritten /\ thread[t] = "idle"
        /\ request' = [request EXCEPT ![t] = r]
    BY <1>5 DEF Start
  <2>2. card.run # t
    BY <1>1, <1>2, <2>1 DEF RunInv
  <2>3. request'[card.run] = request[card.run]
    BY <1>1, <2>1, <2>2
  <2>. QED
    BY <2>1, <2>3 DEF Known
<1>6. CASE UNCHANGED studioWorkflowVars
  BY <1>3, <1>6 DEF studioWorkflowVars, threadVars
<1>7. CASE Toggle \/ StartRefused
  BY <1>3, <1>6, <1>7 DEF Toggle, StartRefused, threadVars
<1>8. ASSUME NEW t \in Threads,
             Open(t) \/ OpenFails(t) \/ Cycle(t) \/ SaveFails(t) \/ Complete(t)
             \/ ClearBox(t) \/ DisableButton(t)
      PROVE  UNCHANGED <<request, row, overwritten>>
  BY <1>8 DEF Open, OpenFails, Cycle, SaveFails, Complete, ClearBox, DisableButton
<1>. QED
  BY <1>3, <1>4, <1>5, <1>6, <1>7, <1>8 DEF RunsNext, Run

\* A step of the runs that leaves the history: it may move threads that do not refresh,
\* or one whose refresh is over.
LEMMA HistoryFrame ==
    ASSUME HistoryInv, [RunsNext]_studioWorkflowVars,
           UNCHANGED <<refresh, found, view, details, unread>>,
           database' \in {"absent", "no_table", "ready"},
           database = "ready" => database' = "ready",
           \A u \in Threads :
              /\ thread'[u] \in {"cycling", "saving", "saved", "finishing", "clearing", "done"} =>
                    database' = "ready"
              /\ refresh[u] # "none" => thread'[u] \in {"finishing", "clearing", "done"}
              /\ thread'[u] \in {"clearing", "done"} => refresh[u] = "shown"
              /\ refresh[u] # "none" =>
                    /\ request'[u] = request[u]
                    /\ row'[request[u].id] = u => row[request[u].id] = u
    PROVE  HistoryInv'
<1>1. RunsInv'
  BY RunsStep DEF HistoryInv
<1>2. /\ refresh' = refresh /\ found' = found /\ view' = view /\ details' = details
      /\ unread' = unread
  OBVIOUS
<1>3. HistoryTypeOK' /\ refresh'[Page] # "shown"
  BY <1>2 DEF HistoryInv, HistoryTypeOK
<1>4. ASSUME NEW card \in view' \cup ({details'} \ {NoRun}) PROVE Known(card)'
  <2>1. card \in Cards /\ Known(card)
    BY <1>2, <1>4 DEF HistoryInv, HistoryTypeOK
  <2>. QED
    BY <2>1, KnownStays DEF HistoryInv
<1>5. ASSUME NEW u \in Readers, NEW card \in found'[u] PROVE Known(card)'
  <2>1. card \in Cards /\ Known(card)
    BY <1>2, <1>5 DEF HistoryInv, HistoryTypeOK
  <2>. QED
    BY <2>1, KnownStays DEF HistoryInv
<1>6. ASSUME NEW u \in Threads PROVE ListedInv(u)'
  <2>1. ListedInv(u)
    BY DEF HistoryInv
  <2>2. refresh[u] # "none" => Card(u)' = Card(u)
    BY DEF Card
  <2>3. refresh[u] # "none" => (Coming(u)' <=> Coming(u))
    BY <1>2, <2>2 DEF Coming
  <2>. QED
    BY <1>2, <2>1, <2>2, <2>3 DEF ListedInv
<1>. QED
  BY <1>1, <1>3, <1>4, <1>5, <1>6 DEF HistoryInv

\* A step that moves one thread.
LEMMA OneMoves ==
    ASSUME HistoryInv, [RunsNext]_studioWorkflowVars,
           UNCHANGED <<refresh, found, view, details, unread>>,
           database' \in {"absent", "no_table", "ready"},
           database = "ready" => database' = "ready",
           NEW t \in Threads, NEW l, thread' = [thread EXCEPT ![t] = l],
           l \in {"cycling", "saving", "saved", "finishing", "clearing", "done"} =>
              database' = "ready",
           refresh[t] # "none" => l \in {"finishing", "clearing", "done"},
           l \in {"clearing", "done"} => refresh[t] = "shown",
           \A u \in Threads : refresh[u] # "none" =>
              /\ request'[u] = request[u]
              /\ row'[request[u].id] = u => row[request[u].id] = u
    PROVE  HistoryInv'
<1>1. thread'[t] = l /\ \A u \in Threads : u # t => thread'[u] = thread[u]
  BY DEF HistoryInv, RunsInv, RunsTypes
<1>2. \A u \in Threads : ListedInv(u)
  BY DEF HistoryInv
<1>3. ASSUME NEW u \in Threads
      PROVE  /\ thread'[u] \in {"cycling", "saving", "saved", "finishing", "clearing", "done"} =>
                    database' = "ready"
             /\ refresh[u] # "none" => thread'[u] \in {"finishing", "clearing", "done"}
             /\ thread'[u] \in {"clearing", "done"} => refresh[u] = "shown"
  <2>1. CASE u = t
    BY <1>1, <2>1
  <2>2. CASE u # t
    BY <1>1, <1>2, <2>2 DEF ListedInv
  <2>. QED
    BY <2>1, <2>2
<1>. QED
  BY <1>3, HistoryFrame

LEMMA PageStepKeeps == HistoryInv /\ PageStep => HistoryInv'
<1>. SUFFICES ASSUME HistoryInv, PageStep PROVE HistoryInv'
  OBVIOUS
<1>1. /\ RunsNext /\ database \in {"absent", "no_table", "ready"} /\ database' = database
      /\ UNCHANGED <<refresh, found, view, details, unread>>
  BY DEF PageStep, RunsNext, historyVars, HistoryInv, HistoryTypeOK
<1>2. \A u \in Threads : ListedInv(u)
  BY DEF HistoryInv
<1>3. CASE Toggle \/ StartRefused
  <2>1. thread' = thread /\ request' = request /\ row' = row
    BY <1>3 DEF Toggle, StartRefused, studioWorkflowVars, threadVars
  <2>. QED
    BY <1>1, <1>2, <2>1, HistoryFrame DEF ListedInv
<1>4. ASSUME NEW t \in Threads, NEW r \in Request, Start(t, r)
      PROVE  HistoryInv'
  <2>1. /\ thread[t] = "idle" /\ thread' = [thread EXCEPT ![t] = "submitted"]
        /\ request' = [request EXCEPT ![t] = r] /\ row' = row
    BY <1>4 DEF Start, Goto
  <2>2. refresh[t] = "none"
    BY <1>2, <2>1 DEF ListedInv
  <2>3. \A u \in Threads : u # t => request'[u] = request[u]
    BY <2>1 DEF HistoryInv, RunsInv, RunsTypes
  <2>. QED
    BY <1>1, <2>1, <2>2, <2>3, OneMoves
<1>. QED
  BY <1>3, <1>4 DEF PageStep

LEMMA CreatesKeep ==
    ASSUME HistoryInv, NEW t \in Threads, CreateFile(t) \/ CreateTables(t)
    PROVE  HistoryInv'
<1>1. \A u \in Threads : ListedInv(u)
  BY DEF HistoryInv
<1>2. CASE CreateFile(t)
  <2>1. /\ database = "absent" /\ database' = "no_table"
        /\ UNCHANGED <<refresh, found, view, details, unread>> /\ UNCHANGED studioWorkflowVars
    BY <1>2 DEF CreateFile
  <2>2. thread' = thread /\ request' = request /\ row' = row
    BY <2>1 DEF studioWorkflowVars, threadVars
  <2>. QED
    BY <1>1, <2>1, <2>2, HistoryFrame DEF ListedInv
<1>3. CASE CreateTables(t)
  <2>1. /\ Open(t) /\ database' = "ready"
        /\ UNCHANGED <<refresh, found, view, details, unread>>
    BY <1>3 DEF CreateTables
  <2>2. /\ thread[t] = "submitted" /\ thread' = [thread EXCEPT ![t] = "cycling"]
        /\ request' = request /\ row' = row
    BY <2>1 DEF Open, Goto
  <2>3. refresh[t] = "none"
    BY <1>1, <2>2 DEF ListedInv
  <2>4. RunsNext
    BY <2>1 DEF RunsNext, Run
  <2>. QED
    BY <2>1, <2>2, <2>3, <2>4, OneMoves
<1>. QED
  BY <1>2, <1>3

LEMMA ProceedKeeps ==
    ASSUME HistoryInv, NEW t \in Threads, Proceed(t)
    PROVE  HistoryInv'
<1>1. /\ RunsNext /\ database \in {"absent", "no_table", "ready"} /\ database' = database
      /\ UNCHANGED <<refresh, found, view, details, unread>>
  BY DEF Proceed, RunsNext, Run, historyVars, HistoryInv, HistoryTypeOK
<1>2. /\ ListedInv(t)
      /\ \A u \in Threads : row \in [Ids -> Threads \cup {NoRun}] /\ request[u].id \in Ids
  BY RequestIs DEF HistoryInv, RunsInv, RunsTypes
<1>3. CASE Save(t)
  <2>1. /\ thread[t] = "saving" /\ thread' = [thread EXCEPT ![t] = "saved"]
        /\ row' = [row EXCEPT ![request[t].id] = t] /\ request' = request
    BY <1>3 DEF Save, Goto
  <2>2. refresh[t] = "none" /\ database = "ready"
    BY <1>2, <2>1 DEF ListedInv
  <2>3. \A u \in Threads : u # t => (row'[request[u].id] = u => row[request[u].id] = u)
    BY <1>2, <2>1
  <2>. QED
    BY <1>1, <2>1, <2>2, <2>3, OneMoves
<1>4. CASE OpenFails(t) \/ Cycle(t) \/ SaveFails(t) \/ Complete(t)
           \/ (ClearBox(t) /\ (thread[t] = "raised" \/ refresh[t] = "shown")) \/ DisableButton(t)
  <2>1. request' = request /\ row' = row
    BY <1>4 DEF OpenFails, Cycle, SaveFails, Complete, ClearBox, DisableButton
  <2>2. /\ thread' = [thread EXCEPT ![t] = thread'[t]]
        /\ thread'[t] \in {"cycling", "saving", "saved", "finishing", "clearing", "done"} =>
              database = "ready"
        /\ refresh[t] # "none" => thread'[t] \in {"finishing", "clearing", "done"}
        /\ thread'[t] \in {"clearing", "done"} => refresh[t] = "shown"
    <3>0. \A l : [thread EXCEPT ![t] = l][t] = l
      BY DEF HistoryInv, RunsInv, RunsTypes
    <3>1. CASE OpenFails(t) \/ SaveFails(t)
      BY <1>2, <3>0, <3>1 DEF OpenFails, SaveFails, Goto, ListedInv
    <3>2. CASE Cycle(t)
      <4>1. PICK l \in {"cycling", "saving"} :
               thread[t] = "cycling" /\ thread' = [thread EXCEPT ![t] = l]
        BY <3>2 DEF Cycle, Goto
      <4>. QED
        BY <1>2, <3>0, <4>1 DEF ListedInv
    <3>3. CASE Complete(t)
      BY <1>2, <3>0, <3>3 DEF Complete, Goto, ListedInv
    <3>4. CASE ClearBox(t) /\ (thread[t] = "raised" \/ refresh[t] = "shown")
      <4>1. PICK l \in {"clearing", "clearing_raised"} :
                     /\ thread[t] \in {"finishing", "raised"}
                     /\ l = "clearing_raised" <=> thread[t] = "raised"
                     /\ thread' = [thread EXCEPT ![t] = l]
        BY <3>4 DEF ClearBox, Goto
      <4>. QED
        BY <1>2, <3>0, <3>4, <4>1 DEF ListedInv
    <3>5. CASE DisableButton(t)
      <4>1. PICK l \in {"done", "failed"} :
                     /\ thread[t] \in {"clearing", "clearing_raised"}
                     /\ l = "failed" <=> thread[t] = "clearing_raised"
                     /\ thread' = [thread EXCEPT ![t] = l]
        BY <3>5 DEF DisableButton, Goto
      <4>. QED
        BY <1>2, <3>0, <4>1 DEF ListedInv
    <3>. QED
      BY <1>4, <3>1, <3>2, <3>3, <3>4, <3>5
  <2>3. PICK l : l = thread'[t]
    OBVIOUS
  <2>. QED
    BY <1>1, <2>1, <2>2, <2>3, OneMoves
<1>5. \/ Save(t) \/ OpenFails(t) \/ Cycle(t) \/ SaveFails(t) \/ Complete(t)
      \/ (ClearBox(t) /\ (thread[t] = "raised" \/ refresh[t] = "shown")) \/ DisableButton(t)
  BY Zenon DEF Proceed
<1>. QED
  BY <1>3, <1>4, <1>5, Zenon

\* What a refresh does not change.
LEMMA RefreshFrame ==
    ASSUME HistoryInv, UNCHANGED <<studioWorkflowVars, database>>,
           HistoryTypeOK', refresh'[Page] # "shown",
           \A card \in view' \cup ({details'} \ {NoRun}) : Known(card),
           \A u \in Readers : \A card \in found'[u] : Known(card),
           \A t \in Threads :
              /\ refresh'[t] # "none" => thread[t] \in {"finishing", "clearing", "done"}
              /\ thread[t] \in {"clearing", "done"} => refresh'[t] = "shown"
              /\ row[request[t].id] = t =>
                    /\ refresh'[t] = "showing" => Card(t) \in found'[t]
                    /\ refresh'[t] = "shown" =>
                          \/ unread' \/ Card(t) \in view'
                          \/ \E u \in Readers :
                                \/ refresh'[u] = "reading"
                                \/ refresh'[u] = "showing" /\ Card(t) \in found'[u]
    PROVE  HistoryInv'
<1>1. RunsInv'
  BY RunsStep DEF HistoryInv
<1>2. /\ thread' = thread /\ request' = request /\ row' = row /\ overwritten' = overwritten
      /\ database' = database
  BY DEF studioWorkflowVars, threadVars
<1>3. \A card : Known(card)' <=> Known(card)
  BY <1>2 DEF Known
<1>4. ASSUME NEW t \in Threads PROVE ListedInv(t)'
  <2>1. ListedInv(t) /\ Card(t)' = Card(t)
    BY <1>2 DEF HistoryInv, Card
  <2>. QED
    BY <1>2, <2>1 DEF ListedInv, Coming
<1>. QED
  BY <1>1, <1>3, <1>4 DEF HistoryInv

LEMMA RefreshesKeep ==
    ASSUME HistoryInv, NEW u \in Readers, RefreshStep(u)
    PROVE  HistoryInv'
<1>1. /\ refresh \in [Readers -> {"none", "reading", "showing", "shown"}]
      /\ found \in [Readers -> SUBSET Cards] /\ view \subseteq Cards
      /\ details \in Cards \cup {NoRun} /\ unread \in BOOLEAN
      /\ database \in {"absent", "no_table", "ready"} /\ refresh[Page] # "shown"
  BY DEF HistoryInv, HistoryTypeOK
<1>2. \A t \in Threads : ListedInv(t) /\ t \in Readers /\ t # Page
  BY HistoryAssumption DEF HistoryInv, Readers, HistoryAssumption
<1>3. /\ \A card \in view \cup ({details} \ {NoRun}) : Known(card)
      /\ \A v \in Readers : \A card \in found[v] : Known(card)
  BY DEF HistoryInv
<1>4. Finished(u) \in {"none", "shown"} /\ (Finished(u) = "none" <=> u = Page)
  BY DEF Finished
<1>5a. Page \in Readers
  BY DEF Readers
<1>5. CASE ClearView(u)
  <2>1. /\ refresh[u] = "none" /\ (u \in Threads => thread[u] = "finishing")
        /\ view' = {} /\ details' = NoRun /\ unread' = FALSE /\ found' = found
        /\ refresh' = [refresh EXCEPT ![u] = "reading"]
        /\ UNCHANGED <<studioWorkflowVars, database>>
    BY <1>5 DEF ClearView
  <2>2. refresh'[u] = "reading" /\ \A v \in Readers : v # u => refresh'[v] = refresh[v]
    BY <1>1, <2>1
  <2>3. /\ database' \in {"absent", "no_table", "ready"} /\ found' \in [Readers -> SUBSET Cards]
        /\ refresh' \in [Readers -> {"none", "reading", "showing", "shown"}]
        /\ view' \subseteq Cards /\ details' \in Cards \cup {NoRun}
    BY <1>1, <2>1
  <2>4. unread' \in BOOLEAN
    BY <2>1, Zenon
  <2>5. HistoryTypeOK' /\ refresh'[Page] # "shown"
    BY <1>1, <1>5a, <2>2, <2>3, <2>4 DEF HistoryTypeOK
  <2>. QED
    BY <1>2, <1>3, <2>1, <2>2, <2>5, RefreshFrame DEF ListedInv
<1>6. CASE Read(u)
  <2>1. /\ refresh[u] = "reading" /\ refresh' = [refresh EXCEPT ![u] = "showing"]
        /\ found' = [found EXCEPT ![u] = Snapshots]
        /\ view' = view /\ details' = details /\ unread' = unread
        /\ UNCHANGED <<studioWorkflowVars, database>>
    BY <1>6 DEF Read
  <2>2. /\ refresh'[u] = "showing" /\ \A v \in Readers : v # u => refresh'[v] = refresh[v]
        /\ found'[u] = Snapshots /\ \A v \in Readers : v # u => found'[v] = found[v]
    BY <1>1, <2>1
  <2>3. Snapshots \subseteq Cards /\ \A card \in Snapshots : Known(card)
    BY DEF Snapshots, Known, HistoryInv, RunsInv, RunInv, Cards
  <2>4. \A t \in Threads : row[request[t].id] = t /\ database = "ready" => Card(t) \in Snapshots
    BY RequestIs DEF Snapshots, Card, Cards, HistoryInv, RunsInv, RunsTypes
  <2>5. /\ found' \in [Readers -> SUBSET Cards]
        /\ refresh' \in [Readers -> {"none", "reading", "showing", "shown"}]
        /\ refresh'[Page] # "shown"
    BY <1>1, <1>5a, <2>1, <2>2, <2>3
  <2>6. HistoryTypeOK'
    BY <1>1, <2>1, <2>5 DEF HistoryTypeOK
  <2>. QED
    BY <1>2, <1>3, <2>1, <2>2, <2>3, <2>4, <2>5, <2>6, RefreshFrame DEF ListedInv, Coming
<1>7. CASE ReadFails(u)
  <2>1. /\ refresh[u] = "reading" /\ refresh' = [refresh EXCEPT ![u] = Finished(u)]
        /\ unread' = TRUE /\ found' = found /\ view' = view /\ details' = details
        /\ UNCHANGED <<studioWorkflowVars, database>>
    BY <1>7 DEF ReadFails
  <2>2. refresh'[u] = Finished(u) /\ \A v \in Readers : v # u => refresh'[v] = refresh[v]
    BY <1>1, <2>1
  <2>3. /\ refresh' \in [Readers -> {"none", "reading", "showing", "shown"}]
        /\ refresh'[Page] # "shown"
    BY <1>1, <1>4, <1>5a, <2>1, <2>2
  <2>4. unread' \in BOOLEAN
    BY <2>1, Zenon
  <2>5. HistoryTypeOK'
    BY <1>1, <2>1, <2>3, <2>4 DEF HistoryTypeOK
  <2>. QED
    BY <1>2, <1>3, <1>4, <2>1, <2>2, <2>3, <2>5, RefreshFrame DEF ListedInv
<1>8. CASE Show(u)
  <2>1. /\ refresh[u] = "showing" /\ refresh' = [refresh EXCEPT ![u] = Finished(u)]
        /\ view' = view \cup found[u] /\ found' = [found EXCEPT ![u] = {}]
        /\ details' = details /\ unread' = unread
        /\ UNCHANGED <<studioWorkflowVars, database>>
    BY <1>8 DEF Show
  <2>2. /\ refresh'[u] = Finished(u) /\ \A v \in Readers : v # u => refresh'[v] = refresh[v]
        /\ found'[u] = {} /\ \A v \in Readers : v # u => found'[v] = found[v]
    BY <1>1, <2>1
  <2>3. /\ refresh' \in [Readers -> {"none", "reading", "showing", "shown"}]
        /\ found' \in [Readers -> SUBSET Cards] /\ view' \subseteq Cards
        /\ refresh'[Page] # "shown"
    BY <1>1, <1>4, <1>5a, <2>1, <2>2
  <2>4. HistoryTypeOK'
    BY <1>1, <2>1, <2>3 DEF HistoryTypeOK
  <2>5. ASSUME NEW t \in Threads, row[request[t].id] = t
        PROVE  /\ refresh'[t] = "showing" => Card(t) \in found'[t]
               /\ refresh'[t] = "shown" =>
                     \/ unread' \/ Card(t) \in view'
                     \/ \E v \in Readers :
                           \/ refresh'[v] = "reading"
                           \/ refresh'[v] = "showing" /\ Card(t) \in found'[v]
    <3>1. refresh'[t] = "showing" => Card(t) \in found'[t]
      BY <1>2, <1>4, <2>2, <2>5 DEF ListedInv
    <3>2. CASE u = t
      BY <1>2, <2>1, <2>5, <3>1, <3>2 DEF ListedInv
    <3>3. CASE u # t
      BY <1>2, <2>1, <2>2, <2>5, <3>1, <3>3 DEF ListedInv, Coming
    <3>. QED
      BY <3>2, <3>3
  <2>. QED
    BY <1>2, <1>3, <1>4, <2>1, <2>2, <2>3, <2>4, <2>5, RefreshFrame DEF ListedInv
<1>. QED
  BY <1>5, <1>6, <1>7, <1>8 DEF RefreshStep

LEMMA SelectKeeps ==
    ASSUME HistoryInv, NEW card \in Cards, Select(card)
    PROVE  HistoryInv'
<1>1. /\ card \in view /\ row[card.id] # NoRun
      /\ details' = [id |-> card.id, run |-> row[card.id]]
      /\ refresh' = refresh /\ found' = found /\ view' = view /\ unread' = unread
      /\ UNCHANGED <<studioWorkflowVars, database>>
  BY DEF Select
<1>2. /\ card.id \in Ids /\ row[card.id] \in Threads
  BY <1>1 DEF Cards, HistoryInv, RunsInv, RunsTypes
<1>3. details' \in Cards /\ Known(details')
  BY <1>1, <1>2 DEF Cards, Known, HistoryInv, RunsInv, RunInv
<1>4. HistoryTypeOK'
  BY <1>1, <1>3 DEF HistoryInv, HistoryTypeOK
<1>5. \A c \in view' \cup ({details'} \ {NoRun}) : Known(c)
  BY <1>1, <1>3 DEF HistoryInv
<1>6. \A t \in Threads : ListedInv(t)
  BY DEF HistoryInv
<1>. QED
  BY <1>1, <1>4, <1>5, <1>6, RefreshFrame DEF HistoryInv, ListedInv, Coming

LEMMA HistoryStarts == HistoryInit => HistoryInv
<1>. SUFFICES ASSUME HistoryInit PROVE HistoryInv
  OBVIOUS
<1>1. RunsInv /\ Page \in Readers
  BY RunsStart DEF HistoryInit, Readers
<1>2. /\ database = "absent" /\ refresh = [u \in Readers |-> "none"]
      /\ found = [u \in Readers |-> {}] /\ view = {} /\ details = NoRun /\ unread = FALSE
      /\ \A t \in Threads : thread[t] = "idle"
  BY DEF HistoryInit, RunsInit
<1>3. unread \in BOOLEAN
  BY <1>2, Zenon
<1>4. HistoryTypeOK
  BY <1>2, <1>3 DEF HistoryTypeOK
<1>5. \A t \in Threads : refresh[t] = "none"
  BY <1>2 DEF Readers
<1>. QED
  BY <1>1, <1>2, <1>4, <1>5 DEF HistoryInv, ListedInv

LEMMA HistorySteps == HistoryInv /\ [HistoryNext]_allHistoryVars => HistoryInv'
<1>1. HistoryInv /\ UNCHANGED allHistoryVars => HistoryInv'
  <2>. SUFFICES ASSUME HistoryInv, UNCHANGED allHistoryVars PROVE HistoryInv'
    OBVIOUS
  <2>1. /\ refresh' = refresh /\ found' = found /\ view' = view /\ details' = details
        /\ unread' = unread /\ UNCHANGED <<studioWorkflowVars, database>>
    BY DEF allHistoryVars, historyVars
  <2>2. HistoryTypeOK'
    BY <2>1 DEF HistoryInv, HistoryTypeOK
  <2>. QED
    BY <2>1, <2>2, RefreshFrame DEF HistoryInv, ListedInv, Coming
<1>2. HistoryInv /\ HistoryNext => HistoryInv'
  BY PageStepKeeps, CreatesKeep, ProceedKeeps, RefreshesKeep, SelectKeeps
  DEF HistoryNext, HistoryRun, Readers
<1>. QED
  BY <1>1, <1>2

\* refresh_history, from any number of threads and from the page: what it shows is
\* stored, and once the refreshes are over the report a run stored has a card.
THEOREM HistoryIsRight == HistorySpec => []HistoryIsStored
<1>1. HistoryInv => HistoryIsStored
  <2>1. HistoryInv => ShownIsStored
    BY DEF HistoryInv, ShownIsStored, Known
  <2>2. HistoryInv => CompletedRunIsListed
    BY DEF HistoryInv, ListedInv, Coming, Card, CompletedRunIsListed, Readers
  <2>. QED
    BY <2>1, <2>2 DEF HistoryInv, HistoryIsStored
<1>. QED
  BY <1>1, HistoryStarts, HistorySteps, PTL DEF HistorySpec
============================================================================
