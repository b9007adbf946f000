-------------------------- MODULE ReplaceProgram --------------------------
(***************************************************************************)
(* The pages that list stored routines, triggers or events, and what is    *)
(* done from them: an object is dropped, or dropped and created again with *)
(* a new definition. The request names it by its position in the list the  *)
(* page showed and by its name, which overloads share. A replacement is    *)
(* one transaction where the engine's DDL has them; otherwise each         *)
(* statement commits itself and the definition read beforehand is replayed *)
(* when the CREATE fails. Users act concurrently, other clients create and *)
(* drop objects, the server may refuse a CREATE, and a request may be      *)
(* cancelled under any statement, which then has its effect or not and     *)
(* after which no statement is sent.                                       *)
(***************************************************************************)
EXTENDS Sequences, SequencesExt, Lists

CONSTANTS
    Savers,          \* users who save a new definition of an object
    Droppers,        \* users who drop one
    Programs,        \* the objects there may be, in the order they are listed
    NameOf,          \* object -> its name
    MaxCancels       \* requests that may be cancelled

VARIABLES
    transactional,   \* SupportsTransactionalDDL, of the engine
    program,         \* object -> its definition: "original", a saver's, or Absent
    arrived,         \* objects that there have been
    meant,           \* user -> the object the user acts on, once its page is open
    place,           \* user -> its position on the page
    picked,          \* user -> the object the request resolved to, once it has
    step,            \* user -> "idle", "opened", "looked", "read", "dropped", "rejected" or "answered"
    saved,           \* saver -> the object its lookup found and its definition
    answer,          \* user -> what it was told
    cancelled        \* users whose request's context is cancelled

pvars == <<transactional, program, arrived, meant, place, picked, step, saved, answer, cancelled>>

Absent == "absent"
Users == Savers \cup Droppers

\* A definition or an object is not taken for none.
ASSUME ProgramAssumption == /\ Programs \in Seq(ToSet(Programs))
                            /\ Absent \notin ToSet(Programs) \cup Users

PInit(engines, presents) ==
         /\ transactional \in engines
         /\ arrived \in presents
         /\ program = [o \in ToSet(Programs) |-> IF o \in arrived THEN "original" ELSE Absent]
         /\ meant = [u \in Users |-> Absent]
         /\ place = [u \in Users |-> 0]
         /\ picked = [u \in Users |-> Absent]
         /\ step = [u \in Users |-> "idle"]
         /\ saved = [u \in Savers |-> [of |-> Absent, text |-> Absent]]
         /\ answer = [u \in Users |-> "none"]
         /\ cancelled = {}

Answered(u, a) == /\ step' = [step EXCEPT ![u] = "answered"]
                  /\ answer' = [answer EXCEPT ![u] = a]
Goes(u, s) == step' = [step EXCEPT ![u] = s] /\ UNCHANGED answer

\* ListRoutines, ListTriggers, ListEvents: what there is, in a fixed order.
Listing == Omit(Programs, {o \in ToSet(Programs) : program[o] = Absent})

\* A page is rendered; its user picks one of the objects it shows.
OpenPage(u) ==
    /\ step[u] = "idle" /\ Goes(u, "opened")
    /\ \E i \in 1..Len(Listing) : /\ place' = [place EXCEPT ![u] = i]
                                  /\ meant' = [meant EXCEPT ![u] = Listing[i]]
    /\ UNCHANGED <<transactional, program, arrived, picked, saved, cancelled>>

\* pickListed: what is at the position now, if it still has the name.
Picked(u) ==
    IF place[u] <= Len(Listing) /\ NameOf[Listing[place[u]]] = NameOf[meant[u]]
    THEN Listing[place[u]] ELSE Absent

\* One statement: it runs and its answer arrives; or the request is cancelled
\* under it, the effect taken or not. Later ones are not sent.
Runs(u, effect) == u \notin cancelled /\ program' = effect /\ UNCHANGED cancelled
CutOff(u, effect) == \/ /\ u \notin cancelled /\ Cardinality(cancelled) < MaxCancels
                        /\ program' \in {program, effect}
                        /\ cancelled' = cancelled \cup {u}
                     \/ u \in cancelled /\ UNCHANGED <<program, cancelled>>
With(o, text) == [program EXCEPT ![o] = text]

\* lookupDefinition: the current definition, to restore.
LookUp(u) ==
    /\ u \in Savers /\ step[u] = "opened"
    /\ IF Picked(u) = Absent THEN Answered(u, "conflict") /\ UNCHANGED saved
       ELSE /\ Goes(u, "looked")
            /\ saved' = [saved EXCEPT ![u] = [of |-> Picked(u), text |-> program[Picked(u)]]]
    /\ UNCHANGED <<transactional, program, arrived, meant, place, picked, cancelled>>

\* replaceProgram and dropProgram resolve the object they drop; a stale reference
\* is a conflict. (A drop is confirmed first, which resolves it once more.)
Resolve(u) ==
    /\ step[u] = IF u \in Savers THEN "looked" ELSE "opened"
    /\ IF Picked(u) = Absent THEN Answered(u, "conflict") /\ UNCHANGED picked
       ELSE Goes(u, "read") /\ picked' = [picked EXCEPT ![u] = Picked(u)]
    /\ UNCHANGED <<transactional, program, arrived, meant, place, saved, cancelled>>

\* ReplaceProgram on transactional DDL: DROP and CREATE commit together. The
\* CREATE is of the object in the text; if that exists it may say OR REPLACE.
ReplaceAtOnce(u) ==
    /\ transactional /\ u \in Savers /\ step[u] = "read"
    /\ LET both == [With(picked[u], Absent) EXCEPT ![meant[u]] = u] IN
       \/ program[picked[u]] # Absent /\ Runs(u, both) /\ Answered(u, "saved")
       \/ Runs(u, program) /\ Answered(u, "rejected")
       \/ CutOff(u, IF program[picked[u]] = Absent THEN program ELSE both) /\ Answered(u, "cut off")
    /\ UNCHANGED <<transactional, arrived, meant, place, picked, saved>>

\* The DROP on its own: a save's first statement on MySQL, or dropProgram's. It
\* has no IF EXISTS.
Drop(u) ==
    /\ step[u] = "read" /\ ~(transactional /\ u \in Savers)
    /\ LET gone == With(picked[u], Absent) IN
       \/ /\ program[picked[u]] # Absent /\ Runs(u, gone)
          /\ IF u \in Savers THEN Goes(u, "dropped") ELSE Answered(u, "dropped")
       \/ program[picked[u]] = Absent /\ Runs(u, program) /\ Answered(u, "rejected")
       \/ CutOff(u, gone) /\ Answered(u, "drop cut off")
    /\ UNCHANGED <<transactional, arrived, meant, place, picked, saved>>

\* A mutation of Create_: a CREATE that fails ends the save.
CreateOnly(u) ==
    /\ step[u] = "dropped"
    /\ LET made == With(meant[u], u) IN
       \/ program[meant[u]] = Absent /\ Runs(u, made) /\ Answered(u, "saved")
       \/ Runs(u, program) /\ Answered(u, "rejected")
       \/ CutOff(u, IF program[meant[u]] = Absent THEN made ELSE program) /\ Answered(u, "rejected")
    /\ UNCHANGED <<transactional, arrived, meant, place, picked, saved>>

\* CreateProgram: the new definition, which the server may refuse.
Create_(u) ==
    /\ step[u] = "dropped"
    /\ LET made == With(meant[u], u) IN
       \/ program[meant[u]] = Absent /\ Runs(u, made) /\ Answered(u, "saved")
       \/ Runs(u, program) /\ Goes(u, "rejected")
       \/ CutOff(u, IF program[meant[u]] = Absent THEN made ELSE program) /\ Goes(u, "rejected")
    /\ UNCHANGED <<transactional, arrived, meant, place, picked, saved>>

\* The previous definition is replayed, and the user is told how that went.
Restore(u) ==
    /\ step[u] = "rejected"
    /\ LET o == saved[u].of IN
       \/ program[o] = Absent /\ Runs(u, With(o, saved[u].text)) /\ Answered(u, "restored")
       \/ program[o] # Absent /\ Runs(u, program) /\ Answered(u, "lost")
       \/ CutOff(u, IF program[o] = Absent THEN With(o, saved[u].text) ELSE program) /\ Answered(u, "lost")
    /\ UNCHANGED <<transactional, arrived, meant, place, picked, saved>>

\* saveProgram without a name, or another client, creates an object.
Arrive ==
    /\ \E o \in ToSet(Programs) \ arrived :
          arrived' = arrived \cup {o} /\ program' = With(o, "original")
    /\ UNCHANGED <<transactional, meant, place, picked, step, saved, answer, cancelled>>

PNext == \/ Arrive
         \/ \E u \in Users : \/ OpenPage(u) \/ LookUp(u) \/ Resolve(u) \/ ReplaceAtOnce(u)
                             \/ Drop(u) \/ Create_(u) \/ Restore(u)

PSpec == PInit(BOOLEAN, SUBSET ToSet(Programs)) /\ [][PNext]_pvars

-----------------------------------------------------------------------------
\* A user took o away: on purpose, with an answer that says so or that leaves it
\* open; or is between the two halves of a save; or was told that it is lost.
TookAway(u, o) ==
    /\ picked[u] = o
    /\ \/ answer[u] \in {"dropped", "drop cut off"}
       \/ /\ ~transactional /\ u \in Savers
          /\ step[u] \in {"dropped", "rejected"} \/ answer[u] = "lost"

\* Another overload had come to the position the page showed: the user's own text
\* is created, and that one is dropped for it.
Displaced(u) == /\ picked[u] # Absent /\ picked[u] # meant[u]
                /\ NameOf[picked[u]] = NameOf[meant[u]]
                /\ answer[u] \in {"saved", "cut off"}

\* The list moved between the two readings of one save: it drops one object and
\* restores the other.
Misread(u) == /\ u \in Savers /\ picked[u] # Absent /\ saved[u].of # picked[u]
              /\ answer[u] = "restored"

\* Objects leave by the hand of a user who was told, and by no other: on an engine
\* with transactional DDL a save that is rejected never makes one go. The exceptions
\* are a page gone stale, where an overload of the same name has moved into the place
\* it shows and is dropped for the one that is saved, and a save under which the list
\* moves, told to be restored. The source claims that neither happens (below).
ProgramKept ==
    \A o \in arrived : program[o] = Absent =>
        \E u \in Users : picked[u] = o /\ (TookAway(u, o) \/ Displaced(u) \/ Misread(u))

\* programs.go:20-22 of addressing an object in a rendered list: "both must keep
\* doing so correctly when that list has moved on". MCComponentClaims refutes it with
\* overloads: what a request resolves to is the object its user picked.
PickedIsMeant == \A u \in Users : picked[u] # Absent => picked[u] = meant[u]

\* programs.go:300-301: "The object's current definition is the undo buffer", of the
\* object that is dropped. MCComponentClaims refutes it: the list is read twice.
RestoredIsDropped == \A u \in Savers : answer[u] = "restored" => saved[u].of = picked[u]
=============================================================================
