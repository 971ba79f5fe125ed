------------------------------ MODULE MCMemory ------------------------------
EXTENDS Memory, TLC

CONSTANTS owner, guest

\* An owner's and a guest's direct chat, a group in which the owner writes, and
\* a group again over an instance that is called "direct".
SomeChats ==
    {[instance |-> "default", direct |-> TRUE, user |-> owner],
     [instance |-> "default", direct |-> TRUE, user |-> guest],
     [instance |-> "default", direct |-> FALSE, user |-> owner],
     [instance |-> "direct", direct |-> FALSE, user |-> owner]}

Symmetry == Permutations(Commands)
=============================================================================
