-------------------------- MODULE ReleaseInventory --------------------------
(***************************************************************************)
(* The SHA-256 inventory of a release (release.py) and the archive built with *)
(* it (scripts/build_release.py), on a directory that others work in: a build *)
(* lists the files, hashes them one by one, writes the inventory beside them  *)
(* and renames it into place, lists the files again and packs them one by     *)
(* one; a verification reads the inventory and compares file after file.      *)
(* Nothing locks the directory.  A digest tells contents apart, so a content  *)
(* stands for its digest; the walk of the directory is one step.              *)
(***************************************************************************)
EXTENDS Integers, Sequences

CONSTANTS
    Files,      \* the files of the release
    Builds,     \* calls of build_archive; a build is also its temporary file
    Checks,     \* calls of verify_release_checksums
    Inventory,  \* RELEASE-CHECKSUMS.sha256
    Missing,    \* no file of this name
    Link,       \* a symbolic link of this name
    Order,      \* the names, sorted
    MaxEdits    \* bound on the changes others make to Files

Names == Files \cup Builds \cup {Inventory}

ASSUME ReleaseAssumption ==
    /\ MaxEdits \in Nat
    /\ Missing # Link /\ {Missing, Link} \cap Nat = {}
    /\ Inventory \notin Files \cup Builds
    /\ Files \cap Builds = {} /\ Builds \cap Checks = {}
    /\ Order \in Seq(Names) /\ Names = {Order[i] : i \in 1..Len(Order)}

VARIABLES
    disk,     \* disk[n]: what there is under each name
    listed,   \* the lines of the inventory in place: a content for each name
    edits,    \* the files others have changed so far, in order
    step,       \* where each build and each check is
    todo,     \* the names it has still to hash, pack or compare
    digests,  \* builds: the contents hashed.  checks: the lines read
    packed,   \* builds: the archive.  checks: the names reported
    touched   \* the names others have changed since it began

releaseVars == <<disk, listed, edits, step, todo, digests, packed, touched>>

Actors == Builds \cup Checks
Empty == [n \in {} |-> 0]
Put(f, n, c) == [x \in DOMAIN f \cup {n} |-> IF x = n THEN c ELSE f[x]]

\* The first of a set of names.
First(S) == LET at(n) == CHOOSE i \in 1..Len(Order) : Order[i] = n
            IN  CHOOSE n \in S : \A other \in S : at(n) <= at(other)

ReleaseInit ==
    /\ disk = [n \in Names |-> IF n \in Files THEN 0 ELSE Missing]
    /\ listed = Empty
    /\ edits = <<>>
    /\ step = [a \in Actors |-> "idle"]
    /\ todo = [a \in Actors |-> {}]
    /\ digests = [a \in Actors |-> Empty]
    /\ packed = [a \in Actors |-> Empty]
    /\ touched = [a \in Actors |-> {}]

Goes(a, to) == step' = [step EXCEPT ![a] = to]

\* Names change, which every actor but `a` may have looked at before.
TouchedBy(a, names) ==
    touched' = [o \in Actors |-> IF o = a THEN touched[o] ELSE touched[o] \cup names]

----------------------------------------------------------------------------
\* Mutant: the inventory is listed in itself.
ListAll(present) == present

\* What iter_release_files leaves out: the inventory, and names it never meets.
Released(present) == present \ {Inventory}

Present == {n \in Names : disk[n] # Missing}
HasLink == \E n \in Released(Present) : disk[n] = Link

\* The list comprehension begins: every file is listed before the first is hashed.
Begin(b) ==
    /\ step[b] = "idle"
    /\ IF HasLink THEN Goes(b, "raised") /\ UNCHANGED <<todo, touched>>
       ELSE /\ Goes(b, "hashing")
            /\ todo' = [todo EXCEPT ![b] = Released(Present)]
            /\ touched' = [touched EXCEPT ![b] = {}]
    /\ UNCHANGED <<disk, listed, edits, digests, packed>>

\* sha256_file of the next name, which may have gone.
Hash(b) ==
    /\ step[b] = "hashing" /\ todo[b] # {}
    /\ LET n == First(todo[b]) IN
       IF disk[n] = Missing THEN Goes(b, "raised") /\ UNCHANGED <<todo, digests>>
       ELSE /\ digests' = [digests EXCEPT ![b] = Put(@, n, disk[n])]
            /\ todo' = [todo EXCEPT ![b] = @ \ {n}]
            /\ UNCHANGED step
    /\ UNCHANGED <<disk, listed, edits, packed, touched>>

\* mkstemp
MakeTemporary(b) ==
    /\ step[b] = "hashing" /\ todo[b] = {}
    /\ disk' = [disk EXCEPT ![b] = 0]
    /\ Goes(b, "made")
    /\ TouchedBy(b, {b})
    /\ UNCHANGED <<listed, edits, todo, digests, packed>>

\* The lines are written and synchronised.
WriteLines(b) ==
    /\ step[b] = "made"
    /\ disk' = [disk EXCEPT ![b] = 1]
    /\ Goes(b, "written")
    /\ TouchedBy(b, {b})
    /\ UNCHANGED <<listed, edits, todo, digests, packed>>

\* What os.replace puts in place: the lines, if they were written.
Lines(b) == IF disk[b] = 1 THEN digests[b] ELSE Empty

Replaced(b) ==
    /\ disk' = [disk EXCEPT ![b] = Missing,
                            ![Inventory] = IF @ = Missing THEN 0 ELSE @ + 1]
    /\ listed' = Lines(b)
    /\ TouchedBy(b, {b, Inventory})

\* Mutant: the rename stands in the finally.
ReplaceAnyway(b) ==
    /\ step[b] \in {"made", "written"}
    /\ Replaced(b)
    /\ Goes(b, "raised")
    /\ UNCHANGED <<edits, todo, digests, packed>>

Replace(b) ==
    /\ step[b] = "written"
    /\ Replaced(b)
    /\ Goes(b, "replaced")
    /\ UNCHANGED <<edits, todo, digests, packed>>

\* OSError while the lines are written, or at the rename: the finally unlinks.
WriteFails(b) ==
    /\ step[b] \in {"made", "written"}
    /\ disk' = [disk EXCEPT ![b] = Missing]
    /\ Goes(b, "raised")
    /\ TouchedBy(b, {b})
    /\ UNCHANGED <<listed, edits, todo, digests, packed>>

\* build_archive lists the files again, and adds the inventory.
ListAgain(b) ==
    /\ step[b] = "replaced"
    /\ IF HasLink THEN Goes(b, "raised") /\ UNCHANGED todo
       ELSE /\ Goes(b, "packing")
            /\ todo' = [todo EXCEPT ![b] = Released(Present) \cup {Inventory}]
    /\ UNCHANGED <<disk, listed, edits, digests, packed, touched>>

\* writestr of the next name, read now; the lines of the inventory go with it.
Pack(b) ==
    /\ step[b] = "packing" /\ todo[b] # {}
    /\ LET n == First(todo[b]) IN
       IF disk[n] = Missing THEN Goes(b, "raised") /\ UNCHANGED <<todo, digests, packed>>
       ELSE /\ packed' = [packed EXCEPT ![b] = Put(@, n, disk[n])]
            /\ todo' = [todo EXCEPT ![b] = @ \ {n}]
            /\ digests' = IF n = Inventory THEN [digests EXCEPT ![b] = listed] ELSE digests
            /\ Goes(b, IF todo'[b] = {} THEN "built" ELSE "packing")
    /\ UNCHANGED <<disk, listed, edits, touched>>

\* The process dies; what it had made stays.
Crash(b) ==
    /\ step[b] \in {"hashing", "made", "written", "replaced", "packing"}
    /\ Goes(b, "crashed")
    /\ UNCHANGED <<disk, listed, edits, todo, digests, packed, touched>>

----------------------------------------------------------------------------
\* _checksum_entries reads the inventory, if there is one.
Read(c) ==
    /\ step[c] = "idle"
    /\ IF disk[Inventory] = Missing THEN Goes(c, "raised") /\ UNCHANGED <<todo, digests, touched>>
       ELSE /\ Goes(c, "comparing")
            /\ digests' = [digests EXCEPT ![c] = listed]
            /\ todo' = [todo EXCEPT ![c] = DOMAIN listed]
            /\ touched' = [touched EXCEPT ![c] = {}]
    /\ UNCHANGED <<disk, listed, edits, packed>>

\* Mutant: a link is followed.
DiffersFollowed(n, content) == disk[n] = Missing \/ disk[n] # content

\* The name is missing, unsafe (a link, whatever it leads to) or changed.
Differs(n, content) == disk[n] \in {Missing, Link} \/ disk[n] # content

\* The next name is compared.
Compare(c) ==
    /\ step[c] = "comparing" /\ todo[c] # {}
    /\ LET n == First(todo[c]) IN
       /\ packed' = IF Differs(n, digests[c][n])
                    THEN [packed EXCEPT ![c] = Put(@, n, disk[n])] ELSE packed
       /\ todo' = [todo EXCEPT ![c] = @ \ {n}]
       /\ Goes(c, IF todo'[c] = {} THEN "verified" ELSE "comparing")
    /\ UNCHANGED <<disk, listed, edits, digests, touched>>

----------------------------------------------------------------------------
\* Someone changes, removes, restores or links a file of the release.
Edit(n) ==
    /\ Len(edits) < MaxEdits
    /\ edits' = Append(edits, n)
    /\ \E content \in {0, Len(edits) + 1, Missing, Link} \ {disk[n]} :
          disk' = [disk EXCEPT ![n] = content]
    /\ touched' = [o \in Actors |-> touched[o] \cup {n}]
    /\ UNCHANGED <<listed, step, todo, digests, packed>>

ReleaseNext ==
    \/ \E b \in Builds :
          Begin(b) \/ Hash(b) \/ MakeTemporary(b) \/ WriteLines(b) \/ WriteFails(b)
          \/ Replace(b) \/ ListAgain(b) \/ Pack(b) \/ Crash(b)
    \/ \E c \in Checks : Read(c) \/ Compare(c)
    \/ \E n \in Files : Edit(n)

ReleaseSpec == ReleaseInit /\ [][ReleaseNext]_releaseVars

----------------------------------------------------------------------------
\* The shape of the directory and of what works on it.
ReleaseTypes ==
    /\ disk \in [Names -> Nat \cup {Missing, Link}]
    /\ \A n \in Builds \cup {Inventory} : disk[n] # Link
    /\ \A a \in Actors : todo[a] \subseteq Names /\ touched[a] \subseteq Names

\* The inventory in place is a whole one: it lists every file that nobody changes,
\* with its content, whoever fails or dies while writing another inventory
\* (write_release_checksums: "Atomically write").
InventoryIsWhole ==
    disk[Inventory] # Missing =>
        \A n \in Files : (\A i \in 1..Len(edits) : edits[i] # n)
                          => n \in DOMAIN listed /\ listed[n] = disk[n]

\* An archive whose build succeeded verifies, but for what others changed since the
\* build listed its files: of the names left alone the archive holds those its
\* inventory lists and no other, each with the content that is listed.
ArchiveAgrees ==
    \A b \in Builds :
        step[b] = "built" /\ Inventory \notin touched[b] =>
            \A n \in (DOMAIN digests[b] \cup (DOMAIN packed[b] \ {Inventory})) \ touched[b] :
                /\ n \in DOMAIN packed[b] \cap DOMAIN digests[b]
                /\ packed[b][n] = digests[b][n]

\* Of the files left alone during a verification, it has reported exactly those that
\* differ from the inventory it read, or are links.
VerdictIsTrue ==
    \A c \in Checks : step[c] = "verified" =>
        \A n \in DOMAIN digests[c] \ touched[c] :
            n \in DOMAIN packed[c] <=> disk[n] = Link \/ disk[n] # digests[c][n]

\* The inventory of a release is a whole one; an archive that was built agrees with
\* it, and a verification reports what differs, for every name left alone meanwhile.
ReleaseIsVerified == ReleaseTypes /\ InventoryIsWhole /\ ArchiveAgrees /\ VerdictIsTrue
============================================================================
