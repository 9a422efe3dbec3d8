------------------------- MODULE MacroSubstitution -------------------------
(***************************************************************************)
(* What macro expansion promises, for the statements of a source (its      *)
(* lines without the blank and the comment lines): the lines between mcr   *)
(* and endmcr are put in place of every later line that is the macro's     *)
(* name, and everything else stays as and where it is.  No files, no       *)
(* positions: a body is the sequence of its lines.  Two names are those of *)
(* one macro if Ident does not tell them apart.                            *)
(*                                                                         *)
(* A fault may occur at any time before the end; nothing is promised then. *)
(***************************************************************************)
EXTENDS LineBuffer

CONSTANTS
    IsName(_),   \* the words a macro may be called
    Ident(_)     \* what its name is told by

VARIABLES
    phase,    \* "expanding", "done" or "fault"
    todo,     \* the statements still to be read
    bodies,   \* the macros defined so far
    open,     \* the definition being read: NoMacro, or its name and lines
    out       \* the statements of the expanded file

NoMacro == [name |-> <<>>, body |-> <<>>]

\* The words of the next statement.
First  == FirstWord(skipWhiteSpace(Head(todo)))
Second == FirstWord(AfterWord(skipWhiteSpace(Head(todo))))
Alone  == Second = <<>>

Init ==
    /\ phase = "expanding"
    /\ todo \in Seq(Seq(Characters))
    /\ bodies = <<>>
    /\ open = NoMacro
    /\ out = <<>>

\* One statement is read.
Reading == phase = "expanding" /\ todo # <<>> /\ todo' = Tail(todo) /\ UNCHANGED phase

Begin ==
    /\ open = NoMacro
    /\ First = <<"mcr">> /\ IsName(Second)
    /\ open' = [name |-> Second, body |-> <<>>]
    /\ UNCHANGED <<bodies, out>>

Collect ==
    /\ open # NoMacro
    /\ First # <<"endmcr">>
    /\ open' = [open EXCEPT !.body = Append(@, Head(todo))]
    /\ UNCHANGED <<bodies, out>>

\* A name keeps its first definition.
End ==
    /\ open # NoMacro
    /\ First = <<"endmcr">>
    /\ bodies' = [id \in DOMAIN bodies \cup {Ident(open.name)} |->
                     IF id \in DOMAIN bodies THEN bodies[id] ELSE open.body]
    /\ open' = NoMacro
    /\ UNCHANGED out

\* An endmcr without a definition stands for nothing.
Drop ==
    /\ open = NoMacro
    /\ First = <<"endmcr">>
    /\ UNCHANGED <<bodies, open, out>>

IsCall == IsName(First) /\ Ident(First) \in DOMAIN bodies /\ Alone

Call ==
    /\ open = NoMacro
    /\ IsCall
    /\ out' = out \o bodies[Ident(First)]
    /\ UNCHANGED <<bodies, open>>

Copy ==
    /\ open = NoMacro
    /\ ~IsCall /\ First \notin {<<"mcr">>, <<"endmcr">>}
    /\ out' = Append(out, Head(todo))
    /\ UNCHANGED <<bodies, open>>

Finish ==
    /\ phase = "expanding" /\ todo = <<>> /\ open = NoMacro
    /\ phase' = "done"
    /\ UNCHANGED <<todo, bodies, open, out>>

Fault ==
    /\ phase = "expanding"
    /\ phase' = "fault"
    /\ todo' = <<>> /\ bodies' = <<>> /\ open' = NoMacro /\ out' = <<>>

Next ==
    \/ Reading /\ (Begin \/ Collect \/ End \/ Drop \/ Call \/ Copy)
    \/ Finish \/ Fault

Spec == Init /\ [][Next]_<<phase, todo, bodies, open, out>>
=============================================================================
