------------------------- MODULE ConstructorChoice -------------------------
(***************************************************************************)
(* A question asked of SelectConstructor: which constructor an overload    *)
(* set answers some arguments with.  There are no steps; the question      *)
(* stays what it is.                                                       *)
(***************************************************************************)
EXTENDS Reflected

VARIABLE asked

Constructor == [callable : BOOLEAN, params : Seq([type : STRING, passing : STRING])]

\* A call of any number of arguments, on any overload set.
AsksForConstructor ==
    /\ asked.about = "call"
    /\ asked.constructors \in Seq(Constructor)
    /\ asked.args \in Seq([type : STRING, at : Seq(STRING), const : BOOLEAN, movable : BOOLEAN])

AskSpec == AsksForConstructor /\ [][UNCHANGED asked]_asked

\* The ways to put the members of S in another order.
Orders(S) == {order \in [S -> S] : \A i \in S : \E j \in S : order[j] = i}

\* Which constructor is chosen depends on the arguments alone: not on the order
\* the constructors are declared in, and never one that another candidate suits
\* some argument better than.
ChoiceIsTheCallers ==
    asked.about = "call" =>
        LET chosen == SelectConstructor(asked.constructors, asked.args) IN
        /\ \A order \in Orders(DOMAIN asked.constructors) :
                  SelectConstructor([i \in DOMAIN order |-> asked.constructors[order[i]]], asked.args) = chosen
        /\ Granted(chosen) =>
              \A i \in DOMAIN asked.args :
                  (\E c \in Range(asked.constructors) :
                       IsCandidate(c, asked.args) /\ SuitsArgument(c.params[i], asked.args[i]))
                      => SuitsArgument(chosen.params[i], asked.args[i])
=============================================================================
