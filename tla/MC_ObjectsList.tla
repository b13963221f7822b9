---------------------------- MODULE MC_ObjectsList ----------------------------
EXTENDS ObjectsList

\* Two prefixes that share the name a, so that a name relative to one
\* prefix also denotes an object of the other.
MCInitialContents == [p \in Prefixes |-> IF p = RootPrefix THEN {"a"} ELSE {"a", "b"}]

\* Three requests: enough for a listing of one prefix to be outstanding
\* while the user has moved on and listed or deleted in another.
MCMaxRequests == 3

\* One change by another client, so that listings of the same prefix differ.
MCMaxExternal == 1

\* The sort keys the user clicks.  In this module name and size play the
\* same part (neither is the key a listing sets), so size is left out:
\* each state with it has a twin with name.  ObjectSort checks the orders.
MCSortKeys == {SORT_BY_NAME, SORT_BY_LAST_MODIFIED}

=============================================================================
