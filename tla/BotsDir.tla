------------------------------ MODULE BotsDir ------------------------------
(***************************************************************************)
(* The directory bots/<bot_id> as register.py writes it and registry.py    *)
(* reads it: one file after the other, in place. An entry is a file or a   *)
(* directory; a descriptor keeps the file it opened, so what is written    *)
(* into a file that was removed meanwhile is lost. Importing the pipeline  *)
(* leaves a __pycache__ beside it.                                         *)
(***************************************************************************)
EXTENDS Naturals

CONSTANTS
    Authors,    \* who may write the bot
    Proposals,  \* what they propose
    Torn        \* a file with parts of two proposals

Files == {"manifest", "pipeline", "test"}
Entries == Files \cup {"tests", "pycache"}

VARIABLES
    made,       \* the bot's directory exists
    disk,       \* disk[e]: what the entry holds, "absent" if it is not there
    openBy      \* openBy[f]: authors whose descriptor is on the file under that name

dirVars == <<made, disk, openBy>>

\* A file holds what was generated from a proposal, or its pipeline; which of
\* them, the name says.
Held == {"absent", "empty", "made", Torn} \cup Proposals

DirTypeOK ==
    /\ made \in BOOLEAN
    /\ disk \in [Entries -> Held]
    /\ \A f \in Files : disk[f] # "made"
    /\ openBy \in [Files -> SUBSET Authors]

\* The directory holds the bot of proposal p, or does not exist.
DirInit(existing) ==
    /\ made = (existing # {})
    /\ disk = [e \in Entries |-> IF existing = {} \/ e = "pycache" THEN "absent"
                                 ELSE IF e = "tests" THEN "made"
                                 ELSE CHOOSE p \in existing : TRUE]
    /\ openBy = [f \in Files |-> {}]

Present == {e \in Entries : disk[e] # "absent"}

\* unlink, or rmdir of tests/ or __pycache__/.
Drop(e) ==
    /\ disk' = [disk EXCEPT ![e] = "absent"]
    /\ openBy' = IF e \in Files THEN [openBy EXCEPT ![e] = {}] ELSE openBy
    /\ UNCHANGED made

\* rmdir of the bot's directory.
DropDir ==
    /\ made' = FALSE
    /\ UNCHANGED <<disk, openBy>>

\* mkdir(exist_ok) of the bot's directory.
MakeDir ==
    /\ made' = TRUE
    /\ UNCHANGED <<disk, openBy>>

MakeTests ==
    /\ disk' = [disk EXCEPT !["tests"] = "made"]
    /\ UNCHANGED <<made, openBy>>

\* The directory f is to be written into.
HasRoom(f) == IF f = "test" THEN disk["tests"] # "absent" ELSE made

\* write_text: open(f, "w"), ...
OpenFile(a, f) ==
    /\ disk' = [disk EXCEPT ![f] = "empty"]
    /\ openBy' = [openBy EXCEPT ![f] = @ \cup {a}]
    /\ UNCHANGED made

\* ... then one write, and the close. Over the text of another writer it may
\* leave that text's tail.
FillFile(a, f, p) ==
    /\ \/ a \notin openBy[f] /\ UNCHANGED disk
       \/ /\ a \in openBy[f]
          /\ \E text \in {p} \cup (IF disk[f] \in {"empty", p} THEN {} ELSE {Torn}) :
                disk' = [disk EXCEPT ![f] = text]
    /\ openBy' = [openBy EXCEPT ![f] = @ \ {a}]
    /\ UNCHANGED made

\* The import system's cache of the compiled pipeline.
WriteCache ==
    /\ disk' = [disk EXCEPT !["pycache"] = "made"]
    /\ UNCHANGED <<made, openBy>>

\* The author's process is gone.
CloseAll(a) ==
    /\ openBy' = [f \in Files |-> openBy[f] \ {a}]
    /\ UNCHANGED <<made, disk>>
=============================================================================
