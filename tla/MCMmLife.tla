------------------------------ MODULE MCMmLife ------------------------------
(* Mixes of activities for model-checking MmLife. *)
EXTENDS MmLife

\* Copies of a shared mm that others change and leave.
Copying == [does |-> {"share", "dup", "unmap", "exit"}, room |-> 3]

\* Programs start while their memory is opened and read.
Starting == [does |-> {"share", "exec", "exit", "mem"}, room |-> 2]

\* Victims of the out-of-memory killer, copies, and readers.
Dying == [does |-> {"dup", "oom", "exit", "reap", "mem"}, room |-> 2]

\* The readers that need no permission.
Watching == [does |-> {"dup", "exec", "exit", "cmdline", "link"}, room |-> 2]

\* Mappings listed while they change.
Listing == [does |-> {"share", "dup", "unmap", "exit", "maps"}, room |-> 2]
Replacing == [does |-> {"exec", "exit", "maps"}, room |-> 2]

MCMixes == {Copying, Starting, Dying, Watching, Listing, Replacing}
=============================================================================
