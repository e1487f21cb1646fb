------------------------------ MODULE Commands ------------------------------
(***************************************************************************)
(* The commands a server understands: the tree of commands (parse.c), the  *)
(* modules that put them there (modules.c, m_module.c) with the            *)
(* capabilities and ISUPPORT tokens they announce, and the pseudo commands *)
(* of ircd.conf (conf_pseudo.c).                                           *)
(*                                                                         *)
(* A command is the sequence of its characters. A node of the tree is the  *)
(* path of slots that leads to it, and a message in it names its owner: a  *)
(* module, or None for a pseudo{} block. What commands do is left to the   *)
(* other modules. srv.held, the resident modules loaded since the start,   *)
(* is history for the property.                                            *)
(***************************************************************************)
EXTENDS Integers, Sequences, SequencesExt, FiniteSets

CONSTANTS
    None,
    Slot,       \* character -> its slot in a node, one of MAXPTRLEN
    Alpha,      \* the characters that are letters
    Module,     \* module -> [cmds, caps, isupport, core, resident]
    Autoload,   \* the files of AUTOMODPATH, in the order of the directory
    CoreTable,  \* core_module_table
    MODPATH, AUTOMODPATH,
    Caps, Isupport,  \* what the server itself announces
    Scenes      \* [steps, acts, files, args, breaks]

VARIABLES srv, bad, file, scene
vars == <<srv, bad, file, scene>>

Path(cmd) == [k \in DOMAIN cmd |-> Slot[cmd[k]]]
Prefix(p, k) == SubSeq(p, 1, k)

-----------------------------------------------------------------------------
(* The tree.                                                               *)
EmptyNode == [links |-> 0, msg |-> None]
msg_tree_parse(T, cmd) ==
    IF ToSet(cmd) \subseteq Alpha /\ Path(cmd) \in DOMAIN T THEN T[Path(cmd)].msg ELSE None
find_command(T, cmd) == msg_tree_parse(T, cmd)
add_msg_element(T, msg, cmd) ==
    LET p == Path(cmd)
        nodes == {Prefix(p, k) : k \in 0..Len(p)}
        opens(q) == q \in nodes /\ q # p /\ Prefix(p, Len(q) + 1) \notin DOMAIN T
    IN [q \in DOMAIN T \cup nodes |->
          LET node == IF q \in DOMAIN T THEN T[q] ELSE EmptyNode
          IN IF q = p THEN [links |-> node.links + 1, msg |-> msg]
             ELSE IF opens(q) THEN [node EXCEPT !.links = @ + 1] ELSE node]
(* On the way back up a node without links is freed and its parent loses   *)
(* one.                                                                    *)
Prune(T, q) ==
    IF T[q].links > 0 THEN T
    ELSE [[r \in DOMAIN T \ {q} |-> T[r]] EXCEPT ![Prefix(q, Len(q) - 1)].links = @ - 1]
del_msg_element_fault(T, cmd) ==   \* the count of the nodes above is forgotten
    LET p == Path(cmd)
        gone == [T EXCEPT ![p].msg = None, ![p].links = @ - 1]
    IN IF gone[p].links > 0 THEN gone ELSE [r \in DOMAIN T \ {p} |-> T[r]]
del_msg_element(T, cmd) ==
    LET p == Path(cmd)
    IN FoldLeft(Prune, [T EXCEPT ![p].msg = None, ![p].links = @ - 1],
                [k \in 1..Len(p) |-> Prefix(p, Len(p) + 1 - k)])
mod_add_cmd(T, msg, cmd) == IF msg_tree_parse(T, cmd) # None THEN T ELSE add_msg_element(T, msg, cmd)
mod_del_cmd(T, cmd) == IF msg_tree_parse(T, cmd) = None THEN T ELSE del_msg_element(T, cmd)

-----------------------------------------------------------------------------
(* What a module does when it is loaded and unloaded.                      *)
add_capability(R, cap) == [R EXCEPT !.caps = <<cap>> \o @, !.default = @ \cup {cap}]
delete_capability(R, cap) == [R EXCEPT !.caps = SelectSeq(@, LAMBDA x : x # cap), !.default = @ \ {cap}]
add_isupport(R, name) == IF name \in ToSet(R.isupport) THEN R ELSE [R EXCEPT !.isupport = Append(@, name)]
delete_isupport(R, name) == [R EXCEPT !.isupport = SelectSeq(@, LAMBDA x : x # name)]
modinit(R, m) ==
    LET M == Module[m]
        cmds == FoldLeft(LAMBDA T, c : mod_add_cmd(T, [by |-> m, cmd |-> c], c), R.tree, M.cmds)
    IN FoldLeft(add_isupport, FoldLeft(add_capability, [R EXCEPT !.tree = cmds], M.caps), M.isupport)
modexit(R, m) ==
    LET M == Module[m]
    IN FoldLeft(delete_isupport,
                FoldLeft(delete_capability, [R EXCEPT !.tree = FoldLeft(mod_del_cmd, @, M.cmds)], M.caps), M.isupport)

findmodule_byname(R, m) == m \in ToSet(R.mods)
unload_one_module(R, m) ==
    IF findmodule_byname(R, m) THEN [modexit(R, m) EXCEPT !.mods = SelectSeq(@, LAMBDA x : x # m)] ELSE R
(* Loading <<directory, name>>: R.failed says whether it went wrong.       *)
load_a_module(R, path) ==
    LET m == path[2]
    IN IF findmodule_byname(R, m) THEN [R EXCEPT !.failed = FALSE]
       ELSE IF path \in bad THEN [R EXCEPT !.failed = TRUE]
       ELSE modinit([R EXCEPT !.mods = <<m>> \o @, !.failed = FALSE, !.held = IF Module[m].resident THEN @ \cup {m} ELSE @], m)
OnDisk(dir, m) == (dir = MODPATH /\ m \in ToSet(CoreTable)) \/ (dir = AUTOMODPATH /\ m \in ToSet(Autoload))
load_one_module(R, m) ==
    LET dirs == SelectSeq(R.paths, LAMBDA d : OnDisk(d, m))
    IN IF dirs = <<>> THEN [R EXCEPT !.failed = TRUE] ELSE load_a_module(R, <<dirs[1], m>>)
load_all_modules(R) == FoldLeft(LAMBDA S, m : load_a_module(S, <<AUTOMODPATH, m>>), R, Autoload)
load_conf_modules(R) == FoldLeft(LAMBDA S, m : IF findmodule_byname(S, m) THEN S ELSE load_one_module(S, m), R, R.conf)
load_core_modules(R) ==
    LET load(S, m) == IF ~S.up THEN S
                      ELSE LET L == load_a_module(S, <<MODPATH, m>>) IN [L EXCEPT !.up = ~L.failed]
    IN FoldLeft(load, R, CoreTable)

-----------------------------------------------------------------------------
(* ircd.conf: [paths, modules, pseudos].                                   *)
mod_add_path(paths, d) == IF d \in ToSet(paths) THEN paths ELSE <<d>> \o paths
add_conf_module(mods, m) == <<m>> \o mods
pseudo_register(R, c) ==
    IF find_command(R.tree, c) # None THEN R
    ELSE [R EXCEPT !.pseudos = <<c>> \o @, !.tree = mod_add_cmd(@, [by |-> None, cmd |-> c], c)]
pseudo_clear(R) == [R EXCEPT !.tree = FoldLeft(mod_del_cmd, @, R.pseudos), !.pseudos = <<>>]
mod_clear_paths(R) == [R EXCEPT !.paths = <<>>, !.conf = <<>>]
Parsed(R, F) ==
    FoldLeft(pseudo_register,
             [R EXCEPT !.paths = FoldLeft(mod_add_path, @, F.paths), !.conf = FoldLeft(add_conf_module, @, F.modules)],
             F.pseudos)

NewServer == [up |-> TRUE, tree |-> (<<>> :> EmptyNode), mods |-> <<>>, pseudos |-> <<>>, paths |-> <<>>, conf |-> <<>>,
              caps |-> Caps, default |-> ToSet(Caps), isupport |-> Isupport, failed |-> FALSE, held |-> {}]

-----------------------------------------------------------------------------
(* Steps. A server that exits is started again; R.failed is reset, as no   *)
(* handler leaves it behind.                                               *)
May(act) == act \in scene.acts /\ scene.steps > 0 /\ scene' = [scene EXCEPT !.steps = @ - 1]
Becomes(R) == srv' = [R EXCEPT !.failed = FALSE] /\ UNCHANGED <<bad, file>>
main ==
    /\ ~srv.up /\ May("start")
    /\ Becomes(load_core_modules(load_conf_modules(load_all_modules(Parsed(NewServer, scene.files[file])))))
conf_rehash ==
    /\ srv.up /\ May("rehash")
    /\ Becomes(load_conf_modules(Parsed(pseudo_clear(mod_clear_paths(srv)), scene.files[file])))

module_load(m) ==
    /\ srv.up /\ May("module") /\ ~findmodule_byname(srv, m)
    /\ Becomes(load_one_module(srv, m))
module_unload(m) ==
    /\ srv.up /\ May("module") /\ findmodule_byname(srv, m)
    /\ ~Module[m].core /\ ~Module[m].resident
    /\ Becomes(unload_one_module(srv, m))
module_reload(m) ==
    /\ srv.up /\ May("module") /\ findmodule_byname(srv, m) /\ ~Module[m].resident
    /\ \E R \in {load_one_module(unload_one_module(srv, m), m)} :
         Becomes([R EXCEPT !.up = ~(R.failed /\ Module[m].core)])
ReloadAll ==
    /\ srv.up /\ May("module")
    /\ LET out == SelectSeq(srv.mods, LAMBDA m : ~Module[m].resident)
       IN Becomes(load_core_modules(load_conf_modules(load_all_modules(FoldLeft(unload_one_module, srv, out)))))

(* The administrator edits ircd.conf, or replaces the file of a module by  *)
(* one that cannot be opened and back.                                     *)
Edit ==
    /\ May("edit") /\ file < Len(scene.files)
    /\ file' = file + 1 /\ UNCHANGED <<srv, bad>>
Install(path) ==
    /\ May("install") /\ bad' = (IF path \in bad THEN bad \ {path} ELSE bad \cup {path})
    /\ UNCHANGED <<srv, file>>

Init ==
    /\ scene \in Scenes /\ bad = {} /\ file = 1
    /\ srv = [NewServer EXCEPT !.up = FALSE]
Next ==
    \/ main \/ conf_rehash \/ ReloadAll \/ Edit
    \/ \E m \in scene.args : module_load(m) \/ module_unload(m) \/ module_reload(m)
    \/ \E path \in scene.breaks : Install(path)
Spec == Init /\ [][Next]_vars

-----------------------------------------------------------------------------
Pseudos == UNION {ToSet(scene.files[k].pseudos) : k \in DOMAIN scene.files}
Odd == {Path(c) : c \in {x \in Pseudos : ~(ToSet(x) \subseteq Alpha)}}
Aliased(c) == \E x \in Pseudos : Path(x) = Path(c)
Alive(msg) == IF msg.by = None THEN msg.cmd \in ToSet(srv.pseudos) ELSE msg.by \in ToSet(srv.mods)

(* While the server is up, through loads, reloads that fail, REHASH and    *)
(* unloading in any order, the tree of commands is sound (every node       *)
(* counts what hangs below it and none is left over), no command leads to  *)
(* a module or pseudo{} block that is gone, every command of a loaded      *)
(* module is found and leads there, core and resident modules stay loaded, *)
(* and capabilities and ISUPPORT tokens are announced once each, by        *)
(* exactly the loaded modules (add_msg_element(), del_msg_element(),       *)
(* unload_one_module(), module_reload(), add_capability()). Left out are   *)
(* the commands that a pseudo{} block also names, which the one that is    *)
(* unloaded first takes along, and the node of a pseudo command that is    *)
(* not made of letters, which pseudo_clear() cannot find again.            *)
CommandsRight ==
    srv.up =>
    /\ \A p \in DOMAIN srv.tree \ Odd :
         LET node == srv.tree[p]
             children == {q \in DOMAIN srv.tree : Len(q) = Len(p) + 1 /\ Prefix(q, Len(p)) = p}
         IN /\ node.links = Cardinality(children) + (IF node.msg = None THEN 0 ELSE 1)
            /\ p # <<>> => node.links > 0
            /\ node.msg # None => Path(node.msg.cmd) = p /\ Alive(node.msg)
    /\ \A m \in ToSet(srv.mods) : \A c \in ToSet(Module[m].cmds) :
         ~Aliased(c) => find_command(srv.tree, c) = [by |-> m, cmd |-> c]
    /\ \A c \in ToSet(srv.pseudos) :
         \/ find_command(srv.tree, c) = [by |-> None, cmd |-> c]
         \/ Path(c) \in Odd \/ \E m \in DOMAIN Module : c \in ToSet(Module[m].cmds)
    /\ IsInjective(srv.mods) /\ srv.held \subseteq ToSet(srv.mods)
    /\ \A m \in DOMAIN Module : Module[m].core => findmodule_byname(srv, m)
    /\ IsInjective(srv.caps) /\ srv.default = ToSet(srv.caps)
    /\ ToSet(srv.caps) = ToSet(Caps) \cup UNION {ToSet(Module[m].caps) : m \in ToSet(srv.mods)}
    /\ IsInjective(srv.isupport)
    /\ ToSet(srv.isupport) = ToSet(Isupport) \cup UNION {ToSet(Module[m].isupport) : m \in ToSet(srv.mods)}
=============================================================================
