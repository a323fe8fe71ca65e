----------------------------- MODULE MCIoPorts -----------------------------
EXTENDS IoPorts

\* The beep's tone byte and a digit's; the speaker, or no path.
ToneBytes == {0, 144, 53}
Paths == {0, 2}

\* Frequencies a third and two thirds of the sample rate.
Rows == [r \in 0..3 |-> IF r = 0 THEN 1 ELSE 2]
Columns == [c \in 0..3 |-> IF c = 0 THEN 2 ELSE 1]

\* The seconds 8, 9 and 10: a step of the last digit, and a carry.
Instants == [t \in 0..2 |-> [second |-> 8 + t]]
=============================================================================
