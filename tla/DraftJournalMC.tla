--------------------------- MODULE DraftJournalMC ---------------------------
\* Two background threads and the window's, around the drafts of one folder.
EXTENDS DraftJournal

CONSTANTS d1, d2, root, sub, w1, w2, ui

MCUserActions == {"new", "edit", "retarget", "name", "close", "open",
                  "leave", "quit", "restart"}
=============================================================================
