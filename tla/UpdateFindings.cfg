SPECIFICATION Spec
CONSTANTS
  MaxVersion = 3
\* Exchange the comments of the two groups to see the
\* other history.
\* The directory of an installer cannot be copied back.
  Slots = {s1}
  MaxFailures = 2
  OneInstance = TRUE
  CopyBackFails = TRUE
\* Two desktops of one AppImage update.
\*  Slots = {s1, s2}
\*  MaxFailures = 0
\*  OneInstance = FALSE
\*  CopyBackFails = FALSE
INVARIANT ProvenVersionKept
