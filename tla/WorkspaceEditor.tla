-------------------------- MODULE WorkspaceEditor --------------------------
(***************************************************************************)
(* The editor pane on the files of the environment, which the terminal     *)
(* writes too.  A write outlives the pane that sent it, and what was read  *)
(* stays in the page's query cache.                                        *)
(***************************************************************************)
EXTENDS AttemptPage

CONSTANTS Paths,        \* the files of the workspace
          MaxEdits      \* bound: contents typed

ASSUME EditorAssumption == Paths # {} /\ "none" \notin Paths /\ MaxEdits \in Nat

VARIABLES
    files,      \* path -> its content in the environment
    held,       \* history: path -> the contents it has had
    ed,         \* [sel, mounted, dirty, pending, raced]
    cache,      \* path -> the content last read, or None
    reads,      \* the GETs under way: [path, content], None until it is served
    writes,     \* the PUTs under way: [path, content, at, gen]
    edits       \* bound: contents typed so far

editorVars == <<files, held, ed, cache, reads, writes, edits>>

None == [none |-> TRUE]
\* A content: the file it was typed for, the pane (0 the shell), the keystroke.
Typed(p, g, n) == [path |-> p, gen |-> g, n |-> n]
Blank == [sel |-> "none", mounted |-> None, dirty |-> FALSE, pending |-> None, raced |-> FALSE]

EditorInit ==
    /\ files = [p \in Paths |-> Typed(p, 0, 0)] /\ held = [p \in Paths |-> {files[p]}]
    /\ ed = Blank /\ cache = [p \in Paths |-> None]
    /\ reads = {} /\ writes = {} /\ edits = 0

\* The pane's state goes with the pane, what was typed with it; the cache goes
\* with the page.
EditorFollows ==
    /\ ed' = IF mounts' # mounts \/ ~Active(view') THEN Blank ELSE ed
    /\ cache' = IF view' = "loading" THEN [p \in Paths |-> None] ELSE cache
    /\ reads' = IF view' = "loading" THEN {} ELSE reads
    /\ UNCHANGED <<files, held, writes, edits>>

-----------------------------------------------------------------------------
(* The query of the selected file *)

Asked(p) == [path |-> p, content |-> None]
Asking(p) == IF \E r \in reads : r.path = p THEN reads ELSE reads \cup {Asked(p)}

\* The window gets the focus, or the file is asked for again after an error.
refetch ==
    /\ Active(view) /\ ed.sel # "none"
    /\ reads' = Asking(ed.sel)
    /\ UNCHANGED <<pageVars, files, held, ed, cache, writes, edits>>

\* GET /attempts/:id/files/content, or an error.
read(r) ==
    /\ r.content = None
    /\ \/ /\ status \in {"READY", "IN_PROGRESS", "SUBMITTED"}
          /\ reads' = (reads \ {r}) \cup {[r EXCEPT !.content = files[r.path]]}
       \/ reads' = reads \ {r}
    /\ UNCHANGED <<pageVars, files, held, ed, cache, writes, edits>>

\* Monaco takes its defaultValue once: the first content of the file that it
\* is given.
readArrives(r) ==
    /\ r.content # None /\ reads' = reads \ {r}
    /\ cache' = [cache EXCEPT ![r.path] = r.content]
    /\ ed' = IF ed.sel = r.path /\ ed.mounted = None THEN [ed EXCEPT !.mounted = r.content] ELSE ed
    /\ UNCHANGED <<pageVars, files, held, writes, edits>>

-----------------------------------------------------------------------------
(* The editor *)

Saving == \E w \in writes : w.gen = mounts

\* What is cached is shown at once, while it is read again, unless it was left
\* for five minutes and dropped.
selectFile(p) ==
    /\ Active(view) /\ p # ed.sel
    /\ \E cached \in {cache[p], None} :
         /\ ed' = [Blank EXCEPT !.sel = p, !.mounted = cached]
         /\ cache' = [cache EXCEPT ![p] = cached]
    /\ reads' = Asking(p)
    /\ UNCHANGED <<pageVars, files, held, writes, edits>>

onChange ==
    /\ Active(view) /\ ed.sel # "none" /\ ed.mounted # None /\ edits < MaxEdits
    /\ edits' = edits + 1
    /\ ed' = [ed EXCEPT !.pending = Typed(ed.sel, mounts, edits'), !.dirty = TRUE, !.raced = @ \/ Saving]
    /\ UNCHANGED <<pageVars, files, held, cache, reads, writes>>

\* The button is off while a save runs.
save ==
    /\ Active(view) /\ ed.dirty /\ ~Saving /\ ed.sel # "none" /\ ed.pending # None
    /\ writes' = writes \cup {[path |-> ed.sel, content |-> ed.pending, at |-> "sent", gen |-> mounts]}
    /\ ed' = [ed EXCEPT !.raced = FALSE]
    /\ UNCHANGED <<pageVars, files, held, cache, reads, edits>>

\* PUT /attempts/:id/files/content, in the attempt's environment, or an error
\* from the shell that was to write it.
write(w) ==
    /\ w.at = "sent"
    /\ \/ /\ status \in {"READY", "IN_PROGRESS", "SUBMITTED"}
          /\ files' = [files EXCEPT ![w.path] = w.content]
          /\ held' = [held EXCEPT ![w.path] = @ \cup {w.content}]
          /\ writes' = (writes \ {w}) \cup {[w EXCEPT !.at = "done"]}
       \/ /\ writes' = (writes \ {w}) \cup {[w EXCEPT !.at = "failed"]}
          /\ UNCHANGED <<files, held>>
    /\ UNCHANGED <<pageVars, ed, cache, reads, edits>>

saved_bug(w) ==
    /\ w.at \in {"done", "failed"} /\ writes' = writes \ {w}
    /\ ed' = IF w.gen = mounts /\ Active(view) THEN [ed EXCEPT !.dirty = FALSE] ELSE ed
    /\ UNCHANGED <<pageVars, files, held, cache, reads, edits>>

\* Success clears dirty, whatever has been selected or typed since, and has the
\* file read again if it is on the screen, whatever read is under way; an error
\* leaves it.
saved(w) ==
    /\ w.at \in {"done", "failed"} /\ writes' = writes \ {w}
    /\ ed' = IF w.at = "done" /\ w.gen = mounts /\ Active(view) THEN [ed EXCEPT !.dirty = FALSE] ELSE ed
    /\ reads' = IF w.at = "done" /\ Active(view) /\ ed.sel = w.path
                THEN {r \in reads : r.path # w.path} \cup {Asked(w.path)} ELSE reads
    /\ UNCHANGED <<pageVars, files, held, cache, edits>>

\* The learner's shell writes the file.
ShellWrites(p) ==
    /\ status = "IN_PROGRESS" /\ edits < MaxEdits /\ edits' = edits + 1
    /\ files' = [files EXCEPT ![p] = Typed(p, 0, edits')]
    /\ held' = [held EXCEPT ![p] = @ \cup {files'[p]}]
    /\ UNCHANGED <<pageVars, ed, cache, reads, writes>>

EditorNext ==
    \/ \E p \in Paths : selectFile(p) \/ ShellWrites(p)
    \/ onChange \/ save \/ refetch
    \/ \E r \in reads : read(r) \/ readArrives(r)
    \/ \E w \in writes : write(w) \/ saved(w)

-----------------------------------------------------------------------------
(* Properties *)

Screen == IF ed.pending # None THEN ed.pending ELSE ed.mounted

\* WorkspaceEditor.tsx, selectFile and save: whichever files are opened while a
\* save or a read runs, what was typed for one file is never written into
\* another; and unless something was typed while a save ran, the screen under
\* "Saved" shows a content that the file has had, and text typed in this pane
\* is in the file until another writer (the shell, an editor since left) comes.
\* It is not more than that: a file that is opened again shows what was cached
\* of it, also when a save or the shell has changed the file since.
SavedIsSaved ==
    /\ \A p \in Paths : files[p].path = p
    /\ Active(view) /\ ed.sel # "none" /\ ~ed.dirty /\ ~ed.raced =>
         /\ Screen \in held[ed.sel] \cup {None}
         /\ ed.pending # None => files[ed.sel] = ed.pending \/ files[ed.sel].gen # mounts
=============================================================================
