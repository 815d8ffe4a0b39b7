----------------------------- MODULE MCAppUpdate ------------------------------
\* One desktop at a time, three versions of which the first one works, and two
\* failures.
EXTENDS AppUpdate
===============================================================================
