-------------------------- MODULE MCSessionMemory --------------------------
EXTENDS SessionMemory

\* No history yet, or one file of an older version whose last line is torn.
MCOldStores ==
    {<<>>, [f \in {0} |-> [legacy |-> TRUE, lines |-> <<Spoken(0), Spoken(0), Bad>>]]}

=============================================================================
