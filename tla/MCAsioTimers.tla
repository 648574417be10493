--------------------------- MODULE MCAsioTimers ---------------------------
\* Instances of AsioTimers for TLC.
EXTENDS AsioTimers

CONSTANTS t1, t2, t3, t4, t5, t6

\* Six timers wait. When t4 is cancelled, the entry of t6 takes its place
\* under t2 and has to rise.
SixEarly ==
  << [timer |-> t1, delay |-> 4], [timer |-> t2, delay |-> 5],
     [timer |-> t3, delay |-> 4], [timer |-> t4, delay |-> 5],
     [timer |-> t5, delay |-> 5], [timer |-> t6, delay |-> 4] >>

=============================================================================
