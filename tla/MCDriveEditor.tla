--------------------------- MODULE MCDriveEditor ---------------------------
EXTENDS DriveEditor
=============================================================================
