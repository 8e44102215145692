----------------------------- MODULE Chronicle -----------------------------
(***************************************************************************)
(* What a table of snapshots promises whoever replays it: for every name   *)
(* and every instant, the content that was on record then.  To record a    *)
(* content is to set it from now on; what was on record at an instant that *)
(* is past never changes any more, so that a replay of a past scaling      *)
(* event loads the same cluster today and after the recorder ran on.       *)
(***************************************************************************)
EXTENDS Naturals

CONSTANTS
    Subjects,  \* what contents are recorded of
    Contents,  \* the contents
    Blank,     \* nothing on record
    Instants   \* the instants one may ask for

VARIABLES
    clock,  \* the present
    book    \* subject -> instant -> the content on record then

chronicleVars == <<clock, book>>

ChronicleInit ==
    /\ clock \in Instants
    /\ book = [s \in Subjects |-> [t \in Instants |-> Blank]]

Record(s, c) ==
    /\ book' = [book EXCEPT ![s] = [t \in Instants |->
                    IF t >= clock THEN c ELSE book[s][t]]]
    /\ UNCHANGED clock

Pass ==
    /\ clock' \in {t \in Instants : t > clock}
    /\ UNCHANGED book

ChronicleNext ==
    \/ Pass
    \/ \E s \in Subjects, c \in Contents : Record(s, c)

ChronicleSpec == ChronicleInit /\ [][ChronicleNext]_chronicleVars
=============================================================================
