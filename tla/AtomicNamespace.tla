-------------------------- MODULE AtomicNamespace --------------------------
(***************************************************************************)
(* What the namespace of the volume promises its clients: a name is bound,   *)
(* unbound or moved in one step, and an operation that fails changes         *)
(* nothing.  It promises this for the life of one process: a death may leave *)
(* an operation half done.                                                   *)
(***************************************************************************)
CONSTANTS
    Places,     \* tuples whose first field is a directory
    Inodes,     \* the records of users
    System,     \* the records of system files
    NoInode

VARIABLES
    ns,     \* place -> the record it names, or NoInode
    alive   \* the process has not died

Holds(i) == \E e \in Places : e[1] = i /\ ns[e] # NoInode

\* The record a name may lose: a file of a user, or an empty directory.
Expendable(i) == i \in Inodes /\ ~Holds(i)

\* A create or a hard link.
Bind(e, i) == ns[e] = NoInode /\ ns' = [ns EXCEPT ![e] = i]

Unbind(e) == Expendable(ns[e]) /\ ns' = [ns EXCEPT ![e] = NoInode]

\* A rename, in place of an expendable record or of none.
Move(from, to) ==
    /\ ns[from] \in Inodes /\ ns[to] # ns[from]
    /\ ns[to] = NoInode \/ Expendable(ns[to])
    /\ ns' = [ns EXCEPT ![from] = NoInode, ![to] = ns[from]]

Init == alive = TRUE /\ ns \in [Places -> System \cup {NoInode}]

Change ==
    \/ \E e \in Places, i \in Inodes : Bind(e, i)
    \/ \E e \in Places : Unbind(e)
    \/ \E from, to \in Places : Move(from, to)

Next == \/ alive /\ alive' /\ Change
        \/ ~alive'

Spec == Init /\ [][Next]_<<ns, alive>>

============================================================================
