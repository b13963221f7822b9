------------------------------ MODULE MC_ObjectSort ------------------------------
EXTENDS ObjectSort

\* Two lower-case name ranks with an upper- and a lower-case spelling each,
\* two sizes and two dates: every comparator sees both an order and a tie,
\* and a name with capitals sorts differently with and without toLowerCase.
MCKeys == 1..2
MCSizes == 0..1
MCDates == 1..2

\* Three objects: a folder and two tied files, or three files with a tie.
MCMaxLen == 3

=============================================================================
