-------------------------- MODULE FolderListingMC --------------------------
\* FolderListing for TLC.
EXTENDS FolderListing
=============================================================================
