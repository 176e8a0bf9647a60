--------------------------------- MODULE MCDemos ---------------------------------
EXTENDS Demos
MCKeys == {[n |-> 33, e |-> 3, d |-> 7], [n |-> 35, e |-> 5, d |-> 5],
           [n |-> 55, e |-> 3, d |-> 27], [n |-> 15, e |-> 3, d |-> 3]}

(* The LED, the button, an I2C bus on PB6 to PB9, and two open drains.      *)
MCPinCalls ==
  {[port |-> "A", pins |-> {5}, mode |-> {0}, pull |-> {}, speed |-> {0}, af |-> {}],
   [port |-> "C", pins |-> {13}, mode |-> {}, pull |-> {0}, speed |-> {}, af |-> {}],
   [port |-> "B", pins |-> 6..9, mode |-> {1, 4}, pull |-> {0}, speed |-> {0, 1}, af |-> {2}],
   [port |-> "B", pins |-> {9, 10}, mode |-> {0, 4}, pull |-> {1}, speed |-> {1}, af |-> {}]}
MCUsartSides ==
  {<<1, 1>>, <<2, 1>>, <<2, 2>>, <<3, 1>>, <<4, 1>>, <<5, 1>>, <<5, 2>>}
================================================================================
