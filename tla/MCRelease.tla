------------------------------ MODULE MCRelease ------------------------------
EXTENDS Release

TwoTodos == {1, 2}
=============================================================================
