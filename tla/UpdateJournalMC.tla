-------------------------- MODULE UpdateJournalMC --------------------------
\* UpdateJournal with one file replaced, one added and one removed.
EXTENDS UpdateJournal

MCAdded == {2}
MCRemoved == {3}
=============================================================================
