----------------------------- MODULE ApiWorkspace -----------------------------
(***************************************************************************)
(* The workspace of the API debugger (qingqi-feature-api-debugger): the    *)
(* stored collection and environments (data_source.rs), the commands that  *)
(* change them, each on a thread of its own that ends by reading all of it *)
(* again and leaving it for the panel (service.rs), and the panel, which   *)
(* takes what was left when it is drawn (view/request.rs), keeps what is   *)
(* selected by position, and has one set of editors for the selected       *)
(* request and one for the selected environment.                           *)
(***************************************************************************)
EXTENDS ApiTree

CONSTANTS Task,       \* the threads commands run on
          Stored,     \* the rows the application starts with
          MaxNodes, MaxEnvs,            \* bounds: ids given out in each table,
          MaxClicks, MaxOverlapping     \* events of the user, while nothing runs or ran
                                        \* together, and otherwise

VARIABLES rows,       \* collection_nodes
          envs,       \* environments, with their variables and headers
          born,       \* how many ids of each table were given out
          job,        \* thread -> the steps its command still has to take
          pending,    \* pending_groups and pending_environments
          panel,      \* what the panel shows, what is selected, the editors
          drawing,    \* the panel has taken the groups and not yet the environments
          orderly,    \* history variable: no two commands overlapped so far, none
                      \* failed halfway, no read failed, and no collection was taken
                      \* for empty
          panicked,   \* an environment was selected that is not there: the end
          clicks      \* events of the user so far

\* What the application starts with is what commands that did not overlap left.
ASSUME WorkspaceAssumption ==
    /\ None \notin Nat
    /\ Stored \in Seq(Rows) /\ Intact(Stored)
    /\ \A i \in DOMAIN Stored : Stored[i].id = i

workspaceVars == <<rows, envs, born, job, pending, panel, drawing, orderly, panicked, clicks>>

Env(id, head, data) == [id |-> id, head |-> head, data |-> data]
DefaultEnv          == Env(None, None, None)
ListedEnvs          == IF envs = <<>> THEN <<DefaultEnv>> ELSE envs
Nothing             == [tree |-> <<>>, envs |-> <<>>]
Idle                == \A t \in Task : job[t] = <<>>

-----------------------------------------------------------------------------
(* The panel.                                                              *)

InCase(v)   == v.case # 0
Selected(v) == IF InCase(v) THEN v.tree.requests[v.request].cases[v.case]
               ELSE v.tree.requests[v.request]

\* The editors are filled from what is selected.
WithEditor(v) == [v EXCEPT !.body = Selected(v).text]
WithForm(v)   == [v EXCEPT !.form = [head |-> v.envs[v.env].head, data |-> v.envs[v.env].data]]

\* (Fault: the position of a case outlives its case.)
RendersWithCase(v) ==
    LET none == v.tree.requests = <<>>
        tree == IF none THEN EmptyTree ELSE v.tree
        past == none \/ v.request > Len(tree.requests)
        list == IF v.envs = <<>> THEN <<DefaultEnv>> ELSE v.envs
    IN  [v EXCEPT !.tree = tree, !.request = IF past THEN 1 ELSE v.request,
                  !.case = IF past THEN 0 ELSE v.case,
                  !.envs = list, !.env = IF v.env > Len(list) THEN Len(list) ELSE v.env,
                  !.listed = IF Len(list) > v.listed THEN Len(list) ELSE v.listed]

\* Whatever was taken is made fit to be drawn: no request at all becomes a
\* placeholder, and a position past the end goes back to the first or the last.
\* Taking it tells no other window: an environment editor shows the rows it has.
Renders(v) ==
    LET none   == v.tree.requests = <<>>
        tree   == IF none THEN EmptyTree ELSE v.tree
        past   == none \/ v.request > Len(tree.requests)
        at     == IF past THEN 1 ELSE v.request
        inside == ~past /\ v.case \in DOMAIN tree.requests[at].cases
        list   == IF v.envs = <<>> THEN <<DefaultEnv>> ELSE v.envs
    IN  [v EXCEPT !.tree = tree, !.request = at, !.case = IF inside THEN v.case ELSE 0,
                  !.envs = list, !.env = IF v.env > Len(list) THEN Len(list) ELSE v.env,
                  !.listed = IF Len(list) > v.listed THEN Len(list) ELSE v.listed]

\* The editors are written into what is selected: both, or the request's alone.
RequestSynced(v) ==
    IF InCase(v) THEN [v EXCEPT !.tree.requests[v.request].cases[v.case].text = v.body]
    ELSE [v EXCEPT !.tree.requests[v.request].text = v.body]
Synced(v) == [RequestSynced(v) EXCEPT !.envs[v.env].head = v.form.head,
                                      !.envs[v.env].data = v.form.data]

\* The row of the selected request takes the text the panel has for it.
Persisted(v) == IF Selected(v).id = None THEN rows
                ELSE WithText(rows, Selected(v).id, Selected(v).text)

\* A new panel, on the first request and its first case.  "listed": how many rows
\* an environment editor may be showing, which is a window of its own.
Opened(tree, list) ==
    WithForm(WithEditor(
        [tree |-> tree, request |-> 1, case |-> IF tree.requests[1].cases = <<>> THEN 0 ELSE 1,
         envs |-> list, env |-> 1, listed |-> Len(list),
         body |-> None, form |-> [head |-> None, data |-> None]]))

\* A collection whose requests are all deeper than it looks is taken for empty.
Known == FirstTree(rows) = EmptyTree => Tree(rows).requests = <<>>

\* What a reload reads; a failed read gives no request, or the default environment.
TreesRead == {Tree(rows), [folders |-> {}, requests |-> <<>>]}
EnvsRead  == {ListedEnvs, <<DefaultEnv>>}

WorkspaceInit ==
    /\ rows = Stored /\ envs = <<Env(1, 1, 1)>>
    /\ born = [node |-> Len(Stored), env |-> 1]
    /\ job = [t \in Task |-> <<>>]
    /\ pending = Nothing
    /\ panel = Opened(FirstTree(rows), ListedEnvs) /\ drawing = FALSE
    /\ orderly = Known /\ panicked = FALSE /\ clicks = 0

-----------------------------------------------------------------------------
(* The commands, as the steps their threads take.  A step that fails ends  *)
(* its command, which then does not read the workspace again.              *)

Reload == <<[do |-> "tree"]>>
Insertion(row) == <<[do |-> "insert", row |-> row], [do |-> "check", id |-> row.id]>>
NewEnv(env)    == <<[do |-> "insertenv", env |-> env], [do |-> "checkenv", id |-> env.id]>>

CreateCommand(row)       == Insertion(row) \o Reload
ImportCommand(row1, row2) == Insertion(row1) \o Insertion(row2) \o Reload
CaseCommand(parent, id)  == <<[do |-> "parent", parent |-> parent, id |-> id]>>
DeleteCommand(id)        == <<[do |-> "list", id |-> id]>>
RenameCommand(id)        == <<[do |-> "read", id |-> id]>>
EnvCommand(what, i, x)   == <<[do |-> what, at |-> i, x |-> x]>>

\* The step a thread is at, and what taking it leaves to do.
At(t, do)    == job[t] # <<>> /\ Head(job[t]).do = do
Now(t)       == Head(job[t])
Goes(t, on)  == job' = [job EXCEPT ![t] = on \o Tail(@)]
Done(t)      == Goes(t, <<>>)
Fails(t)     == job' = [job EXCEPT ![t] = <<>>]
Else(t, ok)  == IF ok THEN Done(t) ELSE Fails(t)

\* create_collection_node: the row comes after its siblings, and is read back.
Insert(t) ==
    /\ At(t, "insert")
    /\ rows' = Append(rows, Now(t).row)
    /\ Done(t)
    /\ UNCHANGED <<envs, born, pending, panel, drawing, orderly, clicks>>

CheckRow(t) ==
    /\ At(t, "check")
    /\ Else(t, Has(rows, Now(t).id))
    /\ UNCHANGED <<rows, envs, born, pending, panel, drawing, orderly, clicks>>

\* create_case: under an endpoint that is still there, with what it holds.
ReadParent(t) ==
    /\ At(t, "parent")
    /\ IF Has(rows, Now(t).parent) /\ Get(rows, Now(t).parent).kind = "endpoint"
       THEN Goes(t, CreateCommand(Row(Now(t).id, "case", Now(t).parent,
                                      Get(rows, Now(t).parent).text)))
       ELSE Fails(t)
    /\ UNCHANGED <<rows, envs, born, pending, panel, drawing, orderly, clicks>>

\* delete_collection_node_recursive: what is under the row is read once, then
\* deleted row by row.
ListDoomed(t) ==
    /\ At(t, "list")
    /\ LET ids == Doomed(rows, Now(t).id)
       IN  Goes(t, [i \in DOMAIN ids |-> [do |-> "delete", id |-> ids[i]]] \o Reload)
    /\ UNCHANGED <<rows, envs, born, pending, panel, drawing, orderly, clicks>>

Delete(t) ==
    /\ At(t, "delete")
    /\ rows' = Without(rows, Now(t).id)
    /\ Done(t)
    /\ UNCHANGED <<envs, born, pending, panel, drawing, orderly, clicks>>

\* rename_collection_item: the row is read and written back with its new name.
ReadRow(t) ==
    /\ At(t, "read")
    /\ IF Has(rows, Now(t).id)
       THEN Goes(t, <<[do |-> "write", id |-> Now(t).id, text |-> Get(rows, Now(t).id).text]>>
                    \o Reload)
       ELSE Fails(t)
    /\ UNCHANGED <<rows, envs, born, pending, panel, drawing, orderly, clicks>>

WriteRow(t) ==
    /\ At(t, "write")
    /\ rows' = WithText(rows, Now(t).id, Now(t).text)
    /\ Done(t)
    /\ UNCHANGED <<envs, born, pending, panel, drawing, orderly, clicks>>

InsertEnv(t) ==
    /\ At(t, "insertenv")
    /\ envs' = Append(envs, Now(t).env)
    /\ Done(t)
    /\ UNCHANGED <<rows, born, pending, panel, drawing, orderly, clicks>>

CheckEnv(t) ==
    /\ At(t, "checkenv")
    /\ Else(t, Has(envs, Now(t).id))
    /\ UNCHANGED <<rows, envs, born, pending, panel, drawing, orderly, clicks>>

\* (Fault: the last environment may be deleted.)
PickAnyEnv(t) ==
    /\ At(t, "drop") /\ Now(t).at \in DOMAIN envs
    /\ Goes(t, <<[do |-> "dropenv", id |-> envs[Now(t).at].id]>> \o Reload)
    /\ UNCHANGED <<rows, envs, born, pending, panel, drawing, orderly, clicks>>

\* The environment commands find theirs by its position in the stored list:
\* duplicate_environment, delete_environment_by_index, save_environment_fields.
PickEnv(t) ==
    /\ \/ /\ At(t, "duplicate")
          /\ IF Now(t).at \in DOMAIN envs
             THEN Goes(t, NewEnv(Env(Now(t).x, envs[Now(t).at].head, None))
                          \o <<[do |-> "fill", id |-> Now(t).x, ok |-> TRUE,
                                data |-> envs[Now(t).at].data]>> \o Reload)
             ELSE Fails(t)
       \/ /\ At(t, "drop")
          /\ IF Len(envs) > 1 /\ Now(t).at \in DOMAIN envs
             THEN Goes(t, <<[do |-> "dropenv", id |-> envs[Now(t).at].id]>> \o Reload)
             ELSE Fails(t)
       \/ /\ At(t, "save")
          /\ IF Now(t).at \in DOMAIN envs
             THEN LET id == envs[Now(t).at].id
                  IN  Goes(t, <<[do |-> "head", id |-> id, head |-> Now(t).x.head],
                                [do |-> "wipe", id |-> id],
                                [do |-> "fill", id |-> id, ok |-> Now(t).x.ok,
                                 data |-> Now(t).x.data]>> \o Reload)
             ELSE Fails(t)
    /\ UNCHANGED <<rows, envs, born, pending, panel, drawing, orderly, clicks>>

\* delete_environment takes the variables and headers with it.
DropEnv(t) ==
    /\ At(t, "dropenv")
    /\ envs' = Without(envs, Now(t).id)
    /\ Else(t, Has(envs, Now(t).id))
    /\ UNCHANGED <<rows, born, pending, panel, drawing, orderly, clicks>>

WithEnv(id, field, value) ==
    [i \in DOMAIN envs |-> IF envs[i].id = id THEN [envs[i] EXCEPT ![field] = value] ELSE envs[i]]

\* update_environment; replace_env_variables and replace_env_headers, which first
\* delete and then insert: a repeated key, or an environment that is gone, ends
\* the command between the two.
WriteEnv(t) ==
    /\ \/ At(t, "head") /\ envs' = WithEnv(Now(t).id, "head", Now(t).head) /\ Done(t)
                        /\ UNCHANGED orderly
       \/ At(t, "wipe") /\ envs' = WithEnv(Now(t).id, "data", None) /\ Done(t)
                        /\ UNCHANGED orderly
       \/ /\ At(t, "fill")
          /\ LET fits == Now(t).ok /\ (Now(t).data = None \/ Has(envs, Now(t).id))
             IN  /\ envs' = IF fits THEN WithEnv(Now(t).id, "data", Now(t).data) ELSE envs
                 /\ Else(t, fits)
                 /\ orderly' = (orderly /\ fits)
    /\ UNCHANGED <<rows, born, pending, panel, drawing, clicks>>

\* import_environments_json: one transaction in place of all that was there.
ImportEnvs(t) ==
    /\ At(t, "importenvs")
    /\ envs' = <<Env(Now(t).x, Now(t).x, Now(t).x)>>
    /\ Goes(t, Reload)
    /\ UNCHANGED <<rows, born, pending, panel, drawing, orderly, clicks>>

\* (Fault: groups the panel has not taken yet are kept.)
LeaveOnce(t) ==
    /\ At(t, "publish")
    /\ pending' = [tree |-> IF pending.tree = <<>> THEN <<Now(t).tree>> ELSE pending.tree,
                   envs |-> <<Now(t).envs>>]
    /\ Done(t)
    /\ UNCHANGED <<rows, envs, born, panel, drawing, orderly, clicks>>

\* reload_workspace_with_notice: the tree is read, then the environments, and both
\* are left for the panel, also when a read failed.
ReadTree(t) ==
    /\ At(t, "tree")
    /\ \E tree \in TreesRead :
           /\ Goes(t, <<[do |-> "envs", tree |-> tree]>>)
           /\ orderly' = (orderly /\ tree = Tree(rows))
    /\ UNCHANGED <<rows, envs, born, pending, panel, drawing, clicks>>

ReadEnvs(t) ==
    /\ At(t, "envs")
    /\ \E list \in EnvsRead :
           /\ Goes(t, <<[do |-> "publish", tree |-> Now(t).tree, envs |-> list]>>)
           /\ orderly' = (orderly /\ list = ListedEnvs)
    /\ UNCHANGED <<rows, envs, born, pending, panel, drawing, clicks>>

LeaveForPanel(t) ==
    /\ At(t, "publish")
    /\ pending' = [tree |-> <<Now(t).tree>>, envs |-> <<Now(t).envs>>]
    /\ Done(t)
    /\ UNCHANGED <<rows, envs, born, panel, drawing, orderly, clicks>>

-----------------------------------------------------------------------------
(* The panel is drawn: it takes the groups, then the environments.  The     *)
(* editors are left as they are.                                           *)

TakeGroups ==
    /\ ~drawing /\ pending # Nothing
    /\ panel' = IF pending.tree = <<>> THEN panel
               ELSE Renders([panel EXCEPT !.tree = pending.tree[1]])
    /\ pending' = [pending EXCEPT !.tree = <<>>]
    /\ drawing' = TRUE
    /\ UNCHANGED <<rows, envs, born, job, orderly, clicks>>

TakeEnvs ==
    /\ drawing
    /\ panel' = IF pending.envs = <<>> THEN panel
               ELSE Renders([panel EXCEPT !.envs = pending.envs[1]])
    /\ pending' = [pending EXCEPT !.envs = <<>>]
    /\ drawing' = FALSE
    /\ UNCHANGED <<rows, envs, born, job, orderly, clicks>>

-----------------------------------------------------------------------------
(* What the user does.                                                     *)

Click ==
    /\ ~drawing
    /\ clicks < IF orderly /\ Idle THEN MaxClicks ELSE MaxOverlapping
    /\ clicks' = clicks + 1

\* A command is handed to a thread of its own.
Spawn(steps) ==
    \E t \in Task : /\ job[t] = <<>>
                    /\ job' = [job EXCEPT ![t] = steps]
                    /\ orderly' = (orderly /\ Idle)

\* Sending, choosing a method or a mode of the body, changing the tab: the editors
\* are written into the selected request, and that into its row.
SyncAndSave ==
    /\ Click
    /\ panel' = Synced(panel)
    /\ rows' = Persisted(Synced(panel))
    /\ UNCHANGED <<envs, born, job, pending, drawing, orderly>>

\* A change in a table of the request, or in its authorization, is saved alone.
SaveTable ==
    /\ Click
    /\ panel' = RequestSynced(panel)
    /\ rows' = Persisted(RequestSynced(panel))
    /\ UNCHANGED <<envs, born, job, pending, drawing, orderly>>

\* select_request, select_scenario: the editors are written into what was
\* selected, not stored, and filled from what is selected now.
Select(i, c) ==
    /\ Click
    /\ panel' = WithEditor([Synced(panel) EXCEPT !.request = i, !.case = c])
    /\ UNCHANGED <<rows, envs, born, job, pending, drawing, orderly>>

\* select_environment, which tells the environment editor.
SelectEnvironment(i) ==
    /\ Click
    /\ panel' = WithForm([Synced(panel) EXCEPT !.env = i, !.listed = Len(panel.envs)])
    /\ rows' = Persisted(Synced(panel))
    /\ UNCHANGED <<envs, born, job, pending, drawing, orderly>>

\* The same, for a row of the editor that a reload has taken from the panel: the
\* editors are to be filled from it, and "environment should exist" is a panic.
SelectMissing(i) ==
    /\ Click
    /\ panel' = [Synced(panel) EXCEPT !.env = i]
    /\ rows' = Persisted(Synced(panel))
    /\ panicked' = TRUE
    /\ UNCHANGED <<envs, born, job, pending, drawing, orderly>>

ResetEnvironment ==
    /\ Click
    /\ panel' = WithForm(panel)
    /\ UNCHANGED <<rows, envs, born, job, pending, drawing, orderly>>

\* The rows a menu can be opened on: those in the tree.
MenuIds == panel.tree.folders
    \union {panel.tree.requests[i].id : i \in DOMAIN panel.tree.requests}
    \union UNION {ToSet(RowIds(panel.tree.requests[i].cases)) : i \in DOMAIN panel.tree.requests}

\* find_parent_id_for_new_node: where a new row goes, given the row of the menu.
ParentOf(id) == IF id # None /\ Has(rows, id) THEN Get(rows, id).parent ELSE None
Place(new, menu) ==
    IF menu = None \/ ~Has(rows, menu) THEN None
    ELSE CASE Get(rows, menu).kind = "folder"   -> IF new = "case" THEN None ELSE menu
           [] Get(rows, menu).kind = "endpoint" -> IF new = "case" THEN menu ELSE ParentOf(menu)
           [] Get(rows, menu).kind = "case"     -> IF new = "case" THEN ParentOf(menu)
                                                   ELSE ParentOf(ParentOf(menu))

BornNodes(n) == /\ born.node + n <= MaxNodes
                /\ born' = [born EXCEPT !.node = @ + n]
BornEnv      == /\ born.env < MaxEnvs
                /\ born' = [born EXCEPT !.env = @ + 1]

CreateEndpoint(menu) ==
    /\ Click /\ BornNodes(1)
    /\ Spawn(CreateCommand(Endpoint(born.node + 1, Place("endpoint", menu))))
    /\ UNCHANGED <<rows, envs, pending, panel, drawing>>

CreateFolder(menu) ==
    /\ Click /\ BornNodes(1)
    /\ Spawn(CreateCommand(Folder(born.node + 1, Place("folder", menu))))
    /\ UNCHANGED <<rows, envs, pending, panel, drawing>>

CreateCase(menu) ==
    /\ Click /\ Place("case", menu) # None /\ BornNodes(1)
    /\ Spawn(CaseCommand(Place("case", menu), born.node + 1))
    /\ UNCHANGED <<rows, envs, pending, panel, drawing>>

\* persist_imported_collection: a folder, then an endpoint in it.
ImportCollection ==
    /\ Click /\ BornNodes(2)
    /\ Spawn(ImportCommand(Folder(born.node + 1, None), Endpoint(born.node + 2, born.node + 1)))
    /\ UNCHANGED <<rows, envs, pending, panel, drawing>>

DeleteItem(menu) ==
    /\ Click /\ menu # None
    /\ Spawn(DeleteCommand(menu))
    /\ UNCHANGED <<rows, envs, born, pending, panel, drawing>>

\* open_rename, then confirm_inline_rename.
Rename(menu) ==
    /\ Click /\ menu # None
    /\ Spawn(RenameCommand(menu))
    /\ UNCHANGED <<rows, envs, born, pending, panel, drawing>>

CreateEnvironment ==
    /\ Click /\ BornEnv
    /\ Spawn(NewEnv(Env(born.env + 1, born.env + 1, None)) \o Reload)
    /\ UNCHANGED <<rows, envs, pending, panel, drawing>>

DuplicateEnvironment ==
    /\ Click /\ BornEnv
    /\ panel' = Synced(panel)
    /\ Spawn(EnvCommand("duplicate", panel.env, born.env + 1))
    /\ UNCHANGED <<rows, envs, pending, drawing>>

DeleteEnvironment ==
    /\ Click
    /\ panel' = Synced(panel)
    /\ Spawn(EnvCommand("drop", panel.env, None))
    /\ UNCHANGED <<rows, envs, born, pending, drawing>>

\* "distinct": the keys the user typed are all different.
SaveEnvironment(distinct) ==
    /\ Click
    /\ panel' = Synced(panel)
    /\ Spawn(EnvCommand("save", panel.env,
                        [head |-> panel.form.head, data |-> panel.form.data, ok |-> distinct]))
    /\ UNCHANGED <<rows, envs, born, pending, drawing>>

ImportEnvironments ==
    /\ Click /\ BornEnv
    /\ Spawn(EnvCommand("importenvs", None, born.env + 1))
    /\ UNCHANGED <<rows, envs, pending, panel, drawing>>

\* The window is closed and opened again: a new panel, on the same service.
Reopen ==
    /\ Click
    /\ \E tree \in {FirstTree(rows), EmptyTree}, list \in EnvsRead :
           /\ panel' = Opened(tree, list)
           /\ orderly' = (orderly /\ Known /\ tree = FirstTree(rows) /\ list = ListedEnvs)
    /\ UNCHANGED <<rows, envs, born, job, pending, drawing>>

-----------------------------------------------------------------------------
Commands(t) ==
    \/ Insert(t) \/ CheckRow(t) \/ ReadParent(t) \/ ListDoomed(t) \/ Delete(t)
    \/ ReadRow(t) \/ WriteRow(t) \/ InsertEnv(t) \/ CheckEnv(t) \/ PickEnv(t)
    \/ DropEnv(t) \/ WriteEnv(t) \/ ImportEnvs(t) \/ ReadTree(t) \/ ReadEnvs(t) \/ LeaveForPanel(t)

User ==
    \/ SyncAndSave \/ SaveTable
    \/ \E i \in DOMAIN panel.tree.requests :
           \E c \in {0} \union DOMAIN panel.tree.requests[i].cases : Select(i, c)
    \/ \E i \in DOMAIN panel.envs : SelectEnvironment(i)
    \/ ResetEnvironment
    \/ \E menu \in MenuIds \union {None} :
           \/ CreateEndpoint(menu) \/ CreateFolder(menu) \/ CreateCase(menu)
           \/ DeleteItem(menu) \/ Rename(menu)
    \/ ImportCollection
    \/ CreateEnvironment \/ DuplicateEnvironment \/ DeleteEnvironment
    \/ \E distinct \in BOOLEAN : SaveEnvironment(distinct)
    \/ ImportEnvironments
    \/ Reopen

WorkspaceNext ==
    /\ ~panicked
    /\ \/ /\ (\E t \in Task : Commands(t)) \/ TakeGroups \/ TakeEnvs \/ User
          /\ UNCHANGED panicked
       \/ \E i \in (Len(panel.envs) + 1)..panel.listed : SelectMissing(i)

WorkspaceSpec == WorkspaceInit /\ [][WorkspaceNext]_workspaceVars

-----------------------------------------------------------------------------
(* What holds of them.                                                     *)

\* Whatever the reloads bring, and in whatever order, there is a request, a case
\* and an environment at the selected positions: drawing the panel, syncing the
\* editors and sending all take them for granted ("request should exist").  The one
\* exception is a row of an environment editor that was drawn before a reload left
\* the panel fewer: selecting it is the end of the application.
Renderable ==
    panicked \/ /\ panel.request \in DOMAIN panel.tree.requests
                /\ panel.case \in {0} \union DOMAIN panel.tree.requests[panel.request].cases
                /\ panel.env \in DOMAIN panel.envs

\* Commands that do not overlap leave the panel with what is stored: once the last
\* is done and its result taken, the requests, cases, folders and environments
\* shown are those of the database, in its order.
ShownIsStored ==
    orderly /\ Idle /\ pending = Nothing /\ ~drawing =>
        /\ IdsOf(panel.tree) = IdsOf(IF Tree(rows).requests = <<>> THEN EmptyTree ELSE Tree(rows))
        /\ RowIds(panel.envs) = RowIds(ListedEnvs)

\* Nor do they leave a row that no tree shows: every row's parent is there, a
\* folder or, for a case, an endpoint.  A row is created under what a menu showed
\* some time ago, and a delete goes through a list it read before.
NoOrphans ==
    orderly /\ Idle => Intact(rows)

\* The last environment is never deleted ("at least one is kept").
KeepsOne == orderly => envs # <<>>

=============================================================================
