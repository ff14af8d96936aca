---------------------------- MODULE MCDriveParts ----------------------------
EXTENDS DriveParts

\* Cells are numbered from 1; 0 is no cell.
MCPlace == {1, 2}
=============================================================================
