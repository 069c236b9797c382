-------------------------------- MODULE Ext2 --------------------------------
(***************************************************************************)
(* Finding a file, kernel/ext2.cc and kernel/path.h, for the calls that    *)
(* take a path, open and chdir of kernel/sys.cc, and then reading it with  *)
(* module FileRead.                                                        *)
(*                                                                         *)
(* The disk is a function from byte offsets to the group descriptors and   *)
(* i-nodes mkfs put there.  A name is a string, a path as the user writes  *)
(* it a sequence of names and slashes.                                     *)
(***************************************************************************)
EXTENDS FileRead

CONSTANTS
    Super,       \* the SuperBlock, with the fields the code uses
    SuperOffset, \* where it is, 1024 in the code
    DescSize,    \* sizeof(BlockGroup)
    Disk,        \* inode_table of a group descriptor, or the i-node
    Nodes,       \* what the i-nodes hold: a type, the entries of a
                 \* directory or the path of a symbolic link
    Names,       \* the paths that are looked up
    Garbage,     \* what the bytes on the stack may read as, behind a path
    MaxLinks     \* the links find follows, 100 in the code

VARIABLES
    cwd,       \* PCB::cwd, 0 for nullptr
    call,      \* the call that looks for a path: "none", "open", "chdir"
    name,      \* its path
    path,      \* Path path: what is left of it
    node,      \* find's node; 0 is nullptr
    count,     \* the links met
    garbled,   \* history: this call has read garbage behind a link
    found      \* find has returned node

finding == <<call, name, path, node, count, garbled, found>>
filesVars == <<reading, cwd, finding>>

-----------------------------------------------------------------------------
(* Ext2::Ext2 and get_node *)

nGroups == (Super.blocks_count + Super.blocks_per_group - 1)
               \div Super.blocks_per_group

\* The table of group descriptors begins in the block behind the super block.
GroupTable == (SuperOffset \div BlockSize + 1) * BlockSize

iNodeTables == [g \in 0..(nGroups - 1) |-> Disk[GroupTable + g * DescSize]]

root == 2

NodeOffset(number) ==
    LET index == number - 1 IN
    iNodeTables[index \div Super.inodes_per_group] * BlockSize
        + (index % Super.inodes_per_group) * Super.inode_size

\* The node of an i-number, as it is read from the disk; 0 is nullptr.
get_node(number) == IF number = 0 THEN 0 ELSE Disk[NodeOffset(number)]

\* The assertions on the file system.
ASSUME Ext2Assumption ==
    /\ nGroups * Super.blocks_per_group >= Super.blocks_count
    /\ \A k \in 1..Super.inodes_count :
            (k - 1) \div Super.inodes_per_group < nGroups
    /\ \A g \in DOMAIN iNodeTables : iNodeTables[g] <= Super.blocks_count

\* What a path is made of.
Words == STRING

is_dir(k)     == Nodes[k].type = "dir"
is_symlink(k) == Nodes[k].type = "link"

\* What mkfs makes: every i-node is where the descriptors say; the names in a
\* directory are different and stand for i-nodes, except for unused entries,
\* which have none; and paths are made of names and slashes.
ASSUME NodesAssumption ==
    /\ DOMAIN Nodes \subseteq Nat \ {0} /\ root \in DOMAIN Nodes
    /\ \A k \in DOMAIN Nodes :
        /\ get_node(k) = k
        /\ is_symlink(k) => Nodes[k].target \in Seq(Words)
        /\ is_dir(k) =>
            LET entries == Nodes[k].entries IN
            /\ entries \in Seq(Words \X Nat)
            /\ \A i \in DOMAIN entries :
                IF entries[i][1] = "" THEN entries[i][2] = 0
                ELSE /\ entries[i][2] \in DOMAIN Nodes
                     /\ entries[i][1] # "/"
                     /\ \A j \in DOMAIN entries : entries[j][1] = entries[i][1] => j = i
    /\ "/" \in Words
    /\ Names \subseteq Seq(Words) /\ Garbage \subseteq Seq(Words)
    /\ MaxLinks \in Nat \ {0}

\* find_one: the first entry with that name.
find_one(dir, x) ==
    LET entries == Nodes[dir].entries
        i == SelectInSeq(entries, LAMBDA e : e[1] = x)
    IN  IF i = 0 THEN 0 ELSE get_node(entries[i][2])

-----------------------------------------------------------------------------
(* Path *)

\* The parser: a component for the slash in front, one for every name, and
\* nothing for slashes behind slashes and at the end.
Parse(raw) ==
    LET parts[i \in 0..Len(raw)] ==
            IF i = 0 THEN IF raw # <<>> /\ Head(raw) = "/" THEN <<"/">> ELSE <<>>
            ELSE IF raw[i] = "/" THEN parts[i - 1]
            ELSE Append(parts[i - 1], raw[i])
    IN  parts[Len(raw)]

\* get_symbol reads the path of a link into a buffer that nobody terminates,
\* and the parser goes on into the bytes on the stack behind it, up to the
\* first zero: names and slashes, where there are any.  A name at the end of
\* the path and one that begins the garbage are one name, which may be any.
get_symbol(link, garbage) ==
    LET t == Nodes[link].target
        merged == /\ t # <<>> /\ Last(t) # "/"
                  /\ garbage # <<>> /\ Head(garbage) # "/"
    IN  Parse((IF merged THEN Front(t) ELSE t) \o garbage)

\* Bug: the rest of the path is forgotten.
MergeReplaces(rest, link) == link

\* merge_symbolic_link: in front of what is left.
merge_symbolic_link(rest, link) == link \o rest

-----------------------------------------------------------------------------
(* find *)

FilesInit ==
    /\ ReadInit
    /\ cwd = 0
    /\ call = "none" /\ name = <<>>
    /\ path = <<>> /\ node = 0 /\ count = 0
    /\ garbled = FALSE /\ found = FALSE

\* A call with path p; both begin at the root where there is no cwd, and open
\* makes it the cwd.
CallFind(c, p) ==
    /\ call = "none" /\ returned
    /\ call' = c
    /\ name' = p
    /\ path' = Parse(p)
    /\ node' = IF cwd = 0 THEN root ELSE cwd
    /\ cwd' = IF cwd = 0 /\ c = "open" THEN root ELSE cwd
    /\ ReadForgotten
    /\ UNCHANGED <<count, garbled, found>>

Finding == call # "none" /\ ~found

Find(k) ==
    /\ node' = k
    /\ found' = TRUE
    /\ UNCHANGED <<reading, cwd, call, name, path, count, garbled>>

\* The path is used up.
FindEnds == Finding /\ path = <<>> /\ Find(node)

\* Too many links, not a directory, or no such name.
FindFails ==
    /\ Finding /\ path # <<>>
    /\ count < MaxLinks =>
         /\ Head(path) # "/"
         /\ is_dir(node) => find_one(node, Head(path)) = 0
    /\ Find(0)

Advance(rest, to, links) ==
    /\ path' = rest
    /\ node' = to
    /\ count' = links
    /\ UNCHANGED <<reading, cwd, call, name, found>>

FindRoot ==
    /\ Finding /\ path # <<>> /\ count < MaxLinks
    /\ Head(path) = "/"
    /\ Advance(Tail(path), root, count)
    /\ UNCHANGED garbled

\* The node of the first name, where there is one.
Step(k) ==
    /\ Finding /\ path # <<>> /\ count < MaxLinks
    /\ Head(path) # "/" /\ is_dir(node)
    /\ k = find_one(node, Head(path)) /\ k # 0

\* A file, a directory, or a link at the end of the path.
FindNext(k) ==
    /\ Step(k)
    /\ ~is_symlink(k) \/ Tail(path) = <<>>
    /\ Advance(Tail(path), k, IF is_symlink(k) THEN count + 1 ELSE count)
    /\ UNCHANGED garbled

\* Bug: links are not counted.
FindLinkUncounted(k, garbage) ==
    /\ Step(k)
    /\ is_symlink(k) /\ Tail(path) # <<>>
    /\ Advance(merge_symbolic_link(Tail(path), get_symbol(k, garbage)), node,
               count)
    /\ garbled' = (garbled \/ garbage # <<>>)

\* A link on the way is replaced by its path, from the same directory.
FindLink(k, garbage) ==
    /\ Step(k)
    /\ is_symlink(k) /\ Tail(path) # <<>>
    /\ Advance(merge_symbolic_link(Tail(path), get_symbol(k, garbage)), node,
               count + 1)
    /\ garbled' = (garbled \/ garbage # <<>>)

FindLoop == \/ FindEnds \/ FindFails \/ FindRoot
            \/ \E k \in DOMAIN Nodes :
                   \/ FindNext(k)
                   \/ \E garbage \in Garbage : FindLink(k, garbage)

Reset ==
    /\ call' = "none" /\ name' = <<>>
    /\ path' = <<>> /\ node' = 0 /\ count' = 0
    /\ garbled' = FALSE /\ found' = FALSE

\* chdir takes any node, be it a directory or not.
Chdir ==
    /\ call = "chdir" /\ found
    /\ cwd' = IF node = 0 THEN cwd ELSE node
    /\ Reset
    /\ UNCHANGED reading

\* open gives a descriptor, through which the file is read.
OpenAndRead ==
    /\ call = "open" /\ found
    /\ IF node # 0 /\ Nodes[node].type = "file"
       THEN ReadCall
       ELSE UNCHANGED reading
    /\ Reset
    /\ cwd' = cwd

Progress == \/ FindLoop \/ Chdir \/ OpenAndRead
            \/ ReadNext /\ UNCHANGED <<cwd, finding>>

FilesNext == Progress \/ \E c \in {"open", "chdir"}, p \in Names : CallFind(c, p)

\* A thread in a call goes on, and the drive answers.
FilesSpec == FilesInit /\ [][FilesNext]_filesVars /\ WF_filesVars(Progress)

-----------------------------------------------------------------------------
(* The reference: what a path means. *)

\* The node that directory k lists under a name, 0 if there is none.
Child(k, x) ==
    LET hits == IF k \in DOMAIN Nodes /\ is_dir(k)
                THEN {e \in ToSet(Nodes[k].entries) : e[1] = x} ELSE {}
    IN  IF hits = {} THEN 0 ELSE (CHOOSE e \in hits : TRUE)[2]

\* Where component x leads from node k: a link means what its own path means.
On(means, k, x) ==
    LET m == Child(k, x) IN
    IF x = "/" THEN root
    ELSE IF m # 0 /\ is_symlink(m) THEN means[k][Parse(Nodes[m].target)]
    ELSE m

\* Where the components p lead from node k.
Along(means, k, p) ==
    LET way[i \in 0..Len(p)] ==
            IF i = 0 THEN k ELSE On(means, way[i - 1], p[i])
    IN  way[Len(p)]

\* The directory or file the components p lead to from node k, or 0.  A path
\* inside as many links as find follows means nothing.
Meaning[depth \in 0..MaxLinks] ==
    [k \in Nat |-> [p \in Seq(Words) |->
        IF depth = 0 THEN 0 ELSE Along(Meaning[depth - 1], k, p)]]

\* The same, except that a link at the very end is not followed.
Target(k, p) ==
    IF p = <<>> THEN k
    ELSE IF Last(p) = "/" THEN root
    ELSE Child(Meaning[MaxLinks][k][Front(p)], Last(p))

\* ext2.h, "Returns a null reference if "name" doesn't exist in the directory":
\* rewriting the path link by link, relative and absolute ones, through i-nodes
\* found in the tables of several groups, find() comes to the node the path
\* means, unless it has read garbage behind a link, which may lead it anywhere.
\* It gives up on a path that exists only after MaxLinks links.
FindCorrect ==
    found /\ ~garbled =>
        LET k == Target(IF cwd = 0 THEN root ELSE cwd, Parse(name)) IN
        \/ node = k
        \/ node = 0 /\ count >= MaxLinks

\* find() ends on every file system, one with links in a circle too, and
\* whatever garbage it reads behind the links.
FindReturns == Finding ~> ~Finding

=============================================================================
