------------------------------- MODULE MC_Uploads -------------------------------
EXTENDS Uploads

\* Three uploads, so that two run together and one starts after another ended.
MCSlugs == {"u1", "u2", "u3"}

\* An empty file, and a file whose progress is reported in two steps.
MCSizes == 0..2

=============================================================================
