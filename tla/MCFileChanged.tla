--------------------------- MODULE MCFileChanged ---------------------------
EXTENDS FileChanged

MCFiles == {"f", "g"}
MCPatterns == {{"f"}}
MCEventSets == {{"CREATED"}, {"UPDATED", "DELETED"}}
=============================================================================
