-------------------------------- MODULE Batch --------------------------------
(***************************************************************************)
(* What a command line with several names promises: the sources are        *)
(* assembled one after the other, each as if it was alone.  One step per    *)
(* name; no buffer, no handles, no order in which files are opened.        *)
(***************************************************************************)
EXTENDS Sequences

CONSTANTS
    Names,
    Contents,      \* what a source may contain: its verdict and the files it calls for
    Unwritable,    \* paths that cannot be written
    Unreadable     \* paths that cannot be read

VARIABLES
    disk,   \* the content of each file there is: the source it was made from
    todo    \* the names still to be processed

as == <<".", "a", "s">>
am == <<".", "a", "m">>

With(f, paths, content) ==
    [p \in DOMAIN f \cup paths |-> IF p \in paths THEN content ELSE f[p]]

Init == disk = <<>> /\ todo = <<>>

Edit ==
    /\ todo = <<>>
    /\ \E name \in Names, content \in Contents : disk' = With(disk, {name \o as}, content)
    /\ UNCHANGED todo

Start == todo = <<>> /\ todo' \in Seq(Names) /\ UNCHANGED disk

Readable == DOMAIN disk \ Unreadable

\* A rejected source gets its .am file all the same, an accepted one also the
\* files it calls for if the .am file can be read back.
Assembled(name) ==
    LET source == disk[name \o as]
        files  == IF source.verdict = "accepted" /\ name \o am \notin Unreadable
                  THEN source.calls ELSE {}
    IN  With(disk, {name \o am} \cup ({name \o type : type \in files} \ Unwritable), source)

\* The name has a source, and no .am file or one that may be overwritten.
Assemble ==
    /\ todo # <<>> /\ todo' = Tail(todo)
    /\ Head(todo) \o as \in Readable
    /\ disk' = Assembled(Head(todo))

Skip ==
    /\ todo # <<>> /\ todo' = Tail(todo)
    /\ Head(todo) \o as \in Readable => Head(todo) \o am \in Readable
    /\ UNCHANGED disk

Next == Edit \/ Start \/ Assemble \/ Skip

Spec == Init /\ [][Next]_<<disk, todo>>
=============================================================================
