----------------------------- MODULE MCSmokeRuns -----------------------------
EXTENDS SmokeRuns

CONSTANTS stamp, given, master, bad  \* one name of each kind

==============================================================================
