---------------------------- MODULE MCAlgorithms ----------------------------
(* Every input of the Algorithms over small numbers.                        *)
EXTENDS Algorithms

\* Bars that reach the upper, the lower, both or no barrier of an entry at 10.
MCBars == {[high |-> 14, low |-> 10, close |-> 10, atr |-> 2],
           [high |-> 10, low |-> 7, close |-> 10, atr |-> 2],
           [high |-> 14, low |-> 7, close |-> 10, atr |-> 2],
           [high |-> 10, low |-> 10, close |-> 10, atr |-> 2]}

\* Two files, one beside the other in every window, and the files of one.
MCExports == {{{a, b, c}} : a \in {0, 2, 5}, b \in {1, 3, 4}, c \in {6, 7}}
             \cup {{{a, 3}, {b, 6}} : a \in {0, 2}, b \in {1, 5}}
             \cup {{}, {{4}}, {{0}, {2, 5}, {3}}}

MCPolled == {{}, {1, 2}}
=============================================================================
