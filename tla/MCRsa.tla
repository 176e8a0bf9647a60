--------------------------------- MODULE MCRsa ----------------------------------
EXTENDS Rsa
MCKeys == {[n |-> 33, e |-> 3, d |-> 7], [n |-> 35, e |-> 5, d |-> 5],
           [n |-> 55, e |-> 3, d |-> 27], [n |-> 15, e |-> 3, d |-> 3]}
MCFullKey == {[n |-> 55, e |-> 3, d |-> 27]}
================================================================================
