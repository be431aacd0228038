----------------------------- MODULE BasicBlock -----------------------------
(***************************************************************************)
(* The eliminator on one basic block.  The block is not given: it grows by *)
(* any member of Phrase, so that all blocks of up to MaxPhrases phrases    *)
(* are covered.                                                            *)
(*                                                                         *)
(* Next to the eliminator run the machines that execute the original and   *)
(* the optimised code, one of each per scenario (contents of stack,        *)
(* storage and memory at the start of the block), and vals, the values the *)
(* expression classes have in each scenario.                               *)
(***************************************************************************)
EXTENDS CommonSubexpressionEliminator

CONSTANTS
    Phrase,       \* the sequences of items that blocks are made of
    Scenario,     \* machine states at the start of the block
    Env,          \* the environment's answers
    MaxPhrases    \* bound: phrases in the block

ASSUME MachineAssumption == WordBytes \in Nat \ {0} /\ ByteBits \in Nat \ {0}

VARIABLES
    eliminator,   \* the eliminator, with the classes
    chunk,        \* the items fed since the last getOptimizedItems
    phrase,       \* the rest of the phrase being fed
    phrases,      \* number of phrases so far
    failure,      \* exception of the last getOptimizedItems
    machine,      \* per scenario: the original code so far
    optimised,    \* per scenario: the optimised code, up to the last chunk
    vals          \* per scenario: the value of each class

inputVars == <<phrase, phrases>>
vars == <<eliminator, chunk, failure, machine, optimised, vals, inputVars>>

Index == DOMAIN Scenario

Init ==
    /\ eliminator = Eliminator(EmptyState)
    /\ chunk = <<>> /\ failure = "none"
    /\ phrase = <<>> /\ phrases = 0
    /\ machine = Scenario /\ optimised = Scenario
    /\ vals = [i \in Index |-> <<>>]

\* The machine can execute the item (otherwise the block ends there).
Executable(item) == \A i \in Index : Reaches(item) <= Len(machine[i].stack)

\* The value of a class is that of its representative at its creation, by
\* an item that takes the machine from m to next.
ClassValue(m, next, start, e, v) ==
    LET a == [k \in DOMAIN e.args |-> v[e.args[k]]] IN
    CASE e.item.op = "PUSH" -> e.item.n
      [] e.item.op = "UNDEFINED" -> start.stack[Len(start.stack) + e.item.n]
      [] e.item.op \in Pure -> Eval(e.item.op, a)
      [] e.item.op = "SLOAD" -> m.storage[a[1]]
      [] e.item.op = "MLOAD" -> LoadWord(m.memory, a[1])
      [] e.item.op = "SHA3" -> Hash(Read(m.memory, a[1], a[2]))
      [] e.item.op \in {"CALLER", "GAS", "CREATE"} -> Last(next.stack)
      [] OTHER -> 0                                    \* stores have no value
Extended(i, next, reps) ==
    Accumulated(LAMBDA v, e : Append(v, ClassValue(machine[i], next, Scenario[i], e, v)),
             vals[i], SubSeq(reps, Len(vals[i]) + 1, Len(reps)))

Advanced(item) == [i \in Index |-> Exec(machine[i], item, Env)]

-----------------------------------------------------------------------------
\* The next item of the block.
NextItem(item) ==
    \E p \in IF phrase # <<>> THEN {phrase}
             ELSE IF phrases < MaxPhrases THEN Phrase ELSE {} :
      /\ item = Head(p) /\ phrase' = Tail(p)
      /\ phrases' = IF phrase = <<>> THEN phrases + 1 ELSE phrases

\* feedItems: an item that does not break the block.
Feed(item) ==
    /\ NextItem(item) /\ ~Breaking(item) /\ Executable(item)
    /\ eliminator' = FeedTo(eliminator, item)
    /\ vals' = [i \in Index |-> Extended(i, Advanced(item)[i], eliminator'.known.cl.reps)]
    /\ machine' = Advanced(item)
    /\ chunk' = Append(chunk, item) /\ failure' = "none"
    /\ UNCHANGED optimised

EndOfChunk(breaking) ==
    \E r \in {GetOptimizedItems(eliminator, breaking)} :
    /\ eliminator' = Eliminator(r.next)
    /\ chunk' = <<>> /\ failure' = r.err
    /\ optimised' = [i \in Index |-> Run(optimised[i], Chosen(r, chunk \o breaking), Env)]
    /\ machine' = [i \in Index |-> Run(machine[i], breaking, Env)]
    /\ vals' = [i \in Index |-> Extended(i, machine'[i], r.next.cl.reps)]

\* The chunk ends with a breaking item, or at the end of the block.
Break(item) ==
    /\ NextItem(item) /\ Breaking(item) /\ Executable(item)
    /\ EndOfChunk(<<item>>)
EndBlock ==
    /\ chunk # <<>> /\ phrase = <<>> /\ phrases' = MaxPhrases
    /\ EndOfChunk(<<>>) /\ UNCHANGED phrase

Items == UNION {{p[i] : i \in DOMAIN p} : p \in Phrase}
Next == (\E item \in Items : Feed(item) \/ Break(item)) \/ EndBlock
Spec == Init /\ [][Next]_vars

-----------------------------------------------------------------------------
(* Properties.                                                             *)

\* The element of the machine's stack at a height of the known state.
At(i, h) == machine[i].stack[Len(Scenario[i].stack) + h]

\* Everything feedItem claims to know is true on the machine.
KnowledgeSound ==
    \A i \in Index :
      LET known == eliminator.known
          v == vals[i]
          m == machine[i] IN
      /\ Len(m.stack) = Len(Scenario[i].stack) + known.height
      /\ \A h \in DOMAIN known.stack : At(i, h) = v[known.stack[h]]
      /\ \A k \in DOMAIN known.storage : m.storage[v[k]] = v[known.storage[k]]
      /\ \A k \in DOMAIN known.memory : LoadWord(m.memory, v[k]) = v[known.memory[k]]

\* At the end of each chunk the optimised code has the effect of the
\* original code.
OptimisedCodeEquivalent == chunk = <<>> => optimised = machine

\* The generator may give up, but it never fails an assertion.
NoOptimizerFailure == failure # "OptimizerException"
=============================================================================
