-------------------------- MODULE ProjectGenerator --------------------------
(***************************************************************************)
(* StarterProjectGenerator.generate (generator.py), called through            *)
(* ElmanKernelService.generate by the control API (whose endpoint runs on a   *)
(* pool of threads), by Studio and by the command line, all on the same       *)
(* directory: the test that nothing is there yet, the creation of the         *)
(* directory, and one write per template.                                     *)
(***************************************************************************)
EXTENDS Integers

CONSTANTS
    Callers,    \* calls of generate, each with an intent of its own
    Slugs,      \* intent.slug, the name of the project's directory
    FileCount,  \* FileCount[c]: number of templates of the intent of c
    NoOne,      \* a file that is not there
    Torn,       \* a file whose write failed half way
    Serial      \* one call at a time: a single synchronous process

Files == UNION {1..FileCount[c] : c \in Callers}

ASSUME GeneratorAssumption ==
    /\ FileCount \in [Callers -> Nat \ {0}]
    /\ {NoOne, Torn} \cap Callers = {} /\ NoOne # Torn
    /\ Serial \in BOOLEAN

VARIABLES
    slug,     \* the slug of each caller's intent
    made,     \* the directories that exist
    content,  \* content[s][f]: the caller whose text file f of project s holds
    pc,       \* where each call is
    written   \* how many templates each call has written

generatorVars == <<slug, made, content, pc, written>>

----------------------------------------------------------------------------
\* What a caller's project holds when it is complete.
Project(c) == [f \in Files |-> IF f <= FileCount[c] THEN c ELSE NoOne]

\* any(output_root.iterdir())
Occupied(s) == \E f \in Files : content[s][f] # NoOne

Running(c) == pc[c] \in {"checked", "writing"}

Init ==
    /\ slug \in [Callers -> Slugs]
    /\ made = {}
    /\ content = [s \in Slugs |-> [f \in Files |-> NoOne]]
    /\ pc = [c \in Callers |-> "idle"]
    /\ written = [c \in Callers |-> 0]

Begins(c) ==
    /\ pc[c] = "idle"
    /\ Serial => \A other \in Callers : ~Running(other)

\* Mutant: a directory is looked at no further than for being there.
CheckOnlyReturned(c) ==
    /\ Begins(c)
    /\ ~(\E other \in Callers : slug[other] = slug[c] /\ pc[other] = "returned")
    /\ pc' = [pc EXCEPT ![c] = "checked"]
    /\ UNCHANGED <<slug, made, content, written>>

\* Nothing is there, or an empty directory.
Check(c) ==
    /\ Begins(c)
    /\ ~Occupied(slug[c])
    /\ pc' = [pc EXCEPT ![c] = "checked"]
    /\ UNCHANGED <<slug, made, content, written>>

\* FileExistsError
Refuse(c) ==
    /\ Begins(c)
    /\ Occupied(slug[c])
    /\ pc' = [pc EXCEPT ![c] = "raised"]
    /\ UNCHANGED <<slug, made, content, written>>

\* WorkspaceSandbox creates the root; the templates are made in memory.
MakeRoot(c) ==
    /\ pc[c] = "checked"
    /\ made' = made \cup {slug[c]}
    /\ pc' = [pc EXCEPT ![c] = "writing"]
    /\ UNCHANGED <<slug, content, written>>

\* Mutant: the last template is forgotten.
ReturnEarly(c) ==
    /\ pc[c] = "writing"
    /\ written[c] >= FileCount[c] - 1
    /\ pc' = [pc EXCEPT ![c] = "returned"]
    /\ UNCHANGED <<slug, made, content, written>>

\* GenerationResult
Return(c) ==
    /\ pc[c] = "writing"
    /\ written[c] = FileCount[c]
    /\ pc' = [pc EXCEPT ![c] = "returned"]
    /\ UNCHANGED <<slug, made, content, written>>

Put(c, text) ==
    content' = [content EXCEPT ![slug[c]] = [@ EXCEPT ![written[c] + 1] = text]]

\* write_text of the next template
Write(c) ==
    /\ pc[c] = "writing"
    /\ written[c] < FileCount[c]
    /\ Put(c, c)
    /\ written' = [written EXCEPT ![c] = @ + 1]
    /\ UNCHANGED <<slug, made, pc>>

\* OSError while a file is written: what was written stays, whole or torn.
WriteFails(c) ==
    /\ pc[c] = "writing"
    /\ written[c] < FileCount[c]
    /\ Put(c, Torn) \/ UNCHANGED content
    /\ pc' = [pc EXCEPT ![c] = "raised"]
    /\ UNCHANGED <<slug, made, written>>

\* OSError before the root is made.
RootFails(c) ==
    /\ pc[c] = "checked"
    /\ pc' = [pc EXCEPT ![c] = "raised"]
    /\ UNCHANGED <<slug, made, content, written>>

Next ==
    \E c \in Callers :
        Check(c) \/ Refuse(c) \/ MakeRoot(c) \/ RootFails(c)
        \/ Write(c) \/ WriteFails(c) \/ Return(c)

Spec == Init /\ [][Next]_generatorVars

----------------------------------------------------------------------------
\* The shape of the directory; files only under a root that was made.
TypeOK ==
    /\ slug \in [Callers -> Slugs]
    /\ made \in SUBSET Slugs
    /\ content \in [Slugs -> [Files -> Callers \cup {NoOne, Torn}]]
    /\ \A s \in Slugs : Occupied(s) => s \in made
    /\ pc \in [Callers -> {"idle", "checked", "writing", "returned", "raised"}]
    /\ written \in [Callers -> Files \cup {0}]

\* A file that is there is never written again, whoever calls generate, whatever
\* failed before ("Le projet existe déjà et ne sera pas écrasé").
NeverOverwritten ==
    [][\A s \in Slugs, f \in Files : content[s][f] # NoOne =>
          content'[s][f] = content[s][f]]_content

\* From the moment generate returns, the directory holds exactly the project of
\* that call: every template of its intent, nothing torn, nothing of a project that
\* failed before or came after.
ReturnedIsComplete ==
    \A c \in Callers : pc[c] = "returned" => content[slug[c]] = Project(c)
============================================================================
