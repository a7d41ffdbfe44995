------------------------------- MODULE Studio -------------------------------
(***************************************************************************)
(* The project gate of ELMAN Studio (studio.py): one StudioSession for the    *)
(* whole process, and on every page opened on it a form, an approval box and  *)
(* a button that generates. The handlers of the pages are the actions. A      *)
(* generation (ProjectGenerator) is one step here, with all its outcomes.     *)
(***************************************************************************)
EXTENDS Naturals, FiniteSets

CONSTANTS
    Pages,     \* the pages open on the session
    Intents,   \* the valid ProjectIntents a form can hold
    SlugOf,    \* SlugOf[i]: the slug of intent i
    Nothing,   \* no plan; nothing generated
    MaxGrants  \* bound: how often somebody approves

ASSUME StudioAssumption ==
    /\ Nothing \notin Intents
    /\ DOMAIN SlugOf = Intents
    /\ MaxGrants \in Nat

VARIABLES
    plan,             \* StudioSession.intent and .plan, always set together
    approved,         \* StudioSession.approved
    shown,            \* the plan each page shows
    box,              \* approval_box.value
    box_disabled,     \* approval_box.disabled
    button_disabled,  \* generate_button.disabled
    occupied,         \* the slugs whose directory under generated_root holds files
    grants,           \* history: approvals given
    granted,          \* history: the plan shown to whoever gave the last one
    builds,           \* history: projects generated
    built             \* history: the last one, and what its page showed

sessionVars == <<plan, approved>>
controlVars == <<shown, box, box_disabled, button_disabled>>
tallyVars == <<grants, granted, builds, built>>
studioVars == <<sessionVars, controlVars, occupied, tallyVars>>

----------------------------------------------------------------------------
NotBuilt == [intent |-> Nothing, shown |-> Nothing, granted |-> Nothing]

GateInit ==
    /\ plan = Nothing
    /\ approved = FALSE
    /\ shown = [p \in Pages |-> Nothing]
    /\ box = [p \in Pages |-> FALSE]
    /\ box_disabled = [p \in Pages |-> TRUE]
    /\ button_disabled = [p \in Pages |-> TRUE]
    /\ occupied = {}
    /\ grants = 0 /\ granted = Nothing
    /\ builds = 0 /\ built = NotBuilt

\* The values of approval_box, its disabled flag and that of generate_button.
Controls(p, b, bd, gd) ==
    /\ box' = [box EXCEPT ![p] = b]
    /\ box_disabled' = [box_disabled EXCEPT ![p] = bd]
    /\ button_disabled' = [button_disabled EXCEPT ![p] = gd]

\* Mutant: the new plan inherits the approval of the old one.
PreviewKeepingApproval(p, i) ==
    /\ plan' = i
    /\ shown' = [shown EXCEPT ![p] = i]
    /\ Controls(p, box[p], FALSE, button_disabled[p])
    /\ UNCHANGED <<approved, occupied, tallyVars>>

\* preview_plan of a valid form
Preview(p, i) ==
    /\ plan' = i
    /\ approved' = FALSE
    /\ shown' = [shown EXCEPT ![p] = i]
    /\ Controls(p, FALSE, FALSE, TRUE)
    /\ UNCHANGED <<occupied, tallyVars>>

\* preview_plan of a form that to_intent refuses: StudioSession.preview raises
\* before it touches the session.
PreviewRefused(p) ==
    /\ Controls(p, FALSE, TRUE, TRUE)
    /\ UNCHANGED <<sessionVars, shown, occupied, tallyVars>>

\* approval_changed, the box ticked; without a plan, approve raises.
Approve(p) ==
    /\ ~box_disabled[p] /\ ~box[p]
    /\ grants < MaxGrants
    /\ approved' = (plan # Nothing \/ approved)
    /\ Controls(p, plan # Nothing, FALSE, plan = Nothing)
    /\ grants' = grants + 1
    /\ granted' = shown[p]
    /\ UNCHANGED <<plan, shown, occupied, builds, built>>

\* approval_changed, the tick removed
Revoke(p) ==
    /\ ~box_disabled[p] /\ box[p]
    /\ approved' = FALSE
    /\ Controls(p, FALSE, FALSE, TRUE)
    /\ UNCHANGED <<plan, shown, occupied, tallyVars>>

\* The click is possible, and StudioSession.generate calls the service.
Passes(p) == ~button_disabled[p] /\ plan # Nothing /\ approved

\* Mutant: the approval may serve again.
GenerateKeepingApproval(p) ==
    /\ Passes(p)
    /\ SlugOf[plan] \notin occupied
    /\ occupied' = occupied \cup {SlugOf[plan]}
    /\ builds' = builds + 1
    /\ built' = [intent |-> plan, shown |-> shown[p], granted |-> granted]
    /\ UNCHANGED <<sessionVars, controlVars, grants, granted>>

\* generate_project: the project is written, and the approval consumed.
Generate(p) ==
    /\ Passes(p)
    /\ SlugOf[plan] \notin occupied
    /\ occupied' = occupied \cup {SlugOf[plan]}
    /\ approved' = FALSE
    /\ Controls(p, FALSE, box_disabled[p], TRUE)
    /\ builds' = builds + 1
    /\ built' = [intent |-> plan, shown |-> shown[p], granted |-> granted]
    /\ UNCHANGED <<plan, shown, grants, granted>>

\* OSError in the middle: some files are there, the approval stays.
GenerateFails(p) ==
    /\ Passes(p)
    /\ SlugOf[plan] \notin occupied
    /\ occupied' = occupied \cup {SlugOf[plan]}
    /\ UNCHANGED <<sessionVars, controlVars, tallyVars>>

\* PermissionError of the gate, FileExistsError of the generator: a message.
GenerateRefused(p) ==
    /\ ~button_disabled[p]
    /\ Passes(p) => SlugOf[plan] \in occupied
    /\ UNCHANGED studioVars

\* Somebody removes the directory of a project.
Remove(s) ==
    /\ occupied' = occupied \ {s}
    /\ UNCHANGED <<sessionVars, controlVars, tallyVars>>

GateNext ==
    \/ \E p \in Pages, i \in Intents : Preview(p, i)
    \/ \E p \in Pages : PreviewRefused(p) \/ Approve(p) \/ Revoke(p)
    \/ \E p \in Pages : Generate(p) \/ GenerateFails(p) \/ GenerateRefused(p)
    \/ \E s \in occupied : Remove(s)

GateSpec == GateInit /\ [][GateNext]_studioVars

----------------------------------------------------------------------------
\* The shape of the session and of the pages. A box can only be ticked on a page
\* that has shown a plan, so approve never raises behind it.
GateTypes ==
    /\ plan \in Intents \cup {Nothing}
    /\ approved \in BOOLEAN
    /\ shown \in [Pages -> Intents \cup {Nothing}]
    /\ box \in [Pages -> BOOLEAN]
    /\ box_disabled \in [Pages -> BOOLEAN]
    /\ button_disabled \in [Pages -> BOOLEAN]
    /\ occupied \subseteq {SlugOf[i] : i \in Intents}
    /\ grants \in 0..MaxGrants
    /\ granted \in Intents \cup {Nothing}
    /\ builds \in Nat
    /\ built \in [intent : Intents \cup {Nothing}, shown : Intents \cup {Nothing},
                  granted : Intents \cup {Nothing}]
    /\ \A p \in Pages : ~box_disabled[p] => shown[p] # Nothing
    /\ (\E p \in Pages : shown[p] # Nothing) => plan # Nothing

\* An approval serves for one project at most, however many pages share the
\* session, and however often generation fails, is retried, or a directory is
\* removed and its project generated again.
OneProjectPerApproval == builds <= grants

\* No page but p has shown a plan.
Alone(p) == \A other \in Pages \ {p} : shown[other] = Nothing

\* What is generated is the plan that the page of the button shows, and that was
\* shown when the approval was given ("l'utilisateur a approuvé explicitement le
\* plan actuellement affiché"), unless two pages have shown plans.
GeneratesShownPlan ==
    (\E p \in Pages : Alone(p)) => built.intent = built.shown /\ built.intent = built.granted

\* A button that can be pressed stands for a ticked box, and for an approval that the
\* session holds unless another page has shown a plan.
ButtonMeansApproved ==
    \A p \in Pages : ~button_disabled[p] => box[p] /\ (Alone(p) => approved)

\* An approval serves for one project at most, on one page or on several; while one page
\* shows plans, a button that can be pressed stands for an approval, and what it
\* generates is the plan shown and approved.
ProjectIsApproved ==
    GateTypes /\ OneProjectPerApproval /\ GeneratesShownPlan /\ ButtonMeansApproved
============================================================================
