-------------------------- MODULE CompilerInterface --------------------------
(***************************************************************************)
(* What a user of CompilerStack can rely on, whatever happens inside:      *)
(* texts only change between calls, and only by becoming more within one;  *)
(* an error that was reported stays reported until the next parse; a parse *)
(* that reported none succeeds, and one that reported some fails unless    *)
(* there is a doubtful text; code appears only while compile() runs on a   *)
(* parse that succeeded, has the setting of that call, and stays until it  *)
(* is compiled again or the sources change.                                *)
(***************************************************************************)
EXTENDS Integers

CONSTANTS
    Path, Text, Name,
    Doubtful,          \* texts with an error that parse() may report and forget
    Code,              \* code of a contract: [of, optimised, linked]
    Linked(_)          \* the code after link()

VARIABLES
    phase,             \* the call in progress: "idle", "parse" or "compile"
    goal,              \* what follows a successful parse: "idle" or "compile"
    optimise,          \* the setting of the compile() in progress
    texts,             \* [some paths -> Text]
    parsed,            \* m_parseSuccessful
    failed,            \* an error has been reported
    objects            \* [some names -> Code]

vars == <<phase, goal, optimise, texts, parsed, failed, objects>>
Nothing == [x \in {} |-> x]

Init ==
    /\ phase = "idle" /\ goal = "idle" /\ optimise = FALSE
    /\ texts = Nothing /\ parsed = FALSE /\ failed = FALSE /\ objects = Nothing

\* addSource, setSource and reset discard the results of earlier calls.
ChangeSources ==
    /\ phase = "idle"
    /\ \E D \in SUBSET Path : texts' \in [D -> Text]
    /\ parsed' = FALSE /\ failed' = FALSE /\ objects' = Nothing
    /\ UNCHANGED <<phase, goal, optimise>>

BeginParse ==
    /\ phase = "idle" /\ phase' = "parse"
    /\ parsed' = FALSE /\ failed' = FALSE
    /\ goal' \in {"idle", "compile"}
    /\ goal' = "idle" => optimise' = optimise
    /\ UNCHANGED <<texts, objects>>

\* A step of the parse may read further files and may report an error.
Analyse ==
    /\ phase = "parse"
    /\ \A p \in DOMAIN texts : p \in DOMAIN texts' /\ texts'[p] = texts[p]
    /\ failed => failed'
    /\ UNCHANGED <<phase, goal, optimise, parsed, objects>>

EndParse ==
    /\ phase = "parse"
    /\ failed => failed'
    /\ ~failed' => parsed'
    /\ parsed' => ~failed' \/ \E p \in DOMAIN texts : texts[p] \in Doubtful
    /\ parsed' \in BOOLEAN
    /\ phase' = IF parsed' THEN goal ELSE "idle"
    /\ goal' = "idle"
    /\ UNCHANGED <<optimise, texts, objects>>

BeginCompile ==
    /\ phase = "idle" /\ parsed /\ phase' = "compile"
    /\ UNCHANGED <<goal, texts, parsed, failed, objects>>

\* One contract gets its code.
Emit ==
    /\ phase = "compile" /\ parsed
    /\ \E n \in Name : \E code \in Code :
         /\ code.optimised = optimise /\ ~code.linked
         /\ objects' = [m \in DOMAIN objects \cup {n} |-> IF m = n THEN code ELSE objects[m]]
    /\ UNCHANGED <<phase, goal, optimise, texts, parsed, failed>>

EndCompile ==
    /\ phase = "compile" /\ phase' = "idle" /\ optimise' = FALSE
    /\ UNCHANGED <<goal, texts, parsed, failed, objects>>

Link ==
    /\ phase = "idle"
    /\ objects' = [n \in DOMAIN objects |-> Linked(objects[n])]
    /\ UNCHANGED <<phase, goal, optimise, texts, parsed, failed>>

\* prepareFormalAnalysis may report errors of its own.
FormalAnalysis ==
    /\ phase = "idle" /\ failed' = TRUE
    /\ UNCHANGED <<phase, goal, optimise, texts, parsed, objects>>

Next ==
    \/ ChangeSources \/ BeginParse \/ Analyse \/ EndParse
    \/ BeginCompile \/ Emit \/ EndCompile \/ Link \/ FormalAnalysis
Spec == Init /\ [][Next]_vars
==============================================================================
