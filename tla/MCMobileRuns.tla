----------------------------- MODULE MCMobileRuns -----------------------------
\* One run of each kind and two requests of the phone at a time: a listing has
\* one page.
EXTENDS MobileRuns
===============================================================================
