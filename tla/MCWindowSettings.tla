--------------------------- MODULE MCWindowSettings ---------------------------
\* Values for the constants of WindowSettings: room for two recent files, three
\* files to open, and a native file that is not there, or names one of them or all.
EXTENDS WindowSettings

CONSTANTS a, b, c, decrypt, decompress

MCFirstNative ==
  {NoSettings} \cup
  {[recentfiles |-> names, checked |-> [o \in Options |-> o = decrypt]] :
      names \in {<<a>>, <<a, b, c>>}}
=============================================================================
