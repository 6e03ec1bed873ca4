----------------------------- MODULE MCClipboard -----------------------------
(***************************************************************************)
(* ClipboardHistory with what programs put on the clipboard: a text, files *)
(* (with their names as the text, or with nothing but a text that lists    *)
(* their paths), and a picture.                                            *)
(***************************************************************************)
EXTENDS ClipboardHistory
CONSTANTS text, file, names, paths, picture

Form(some, c) == [i \in {"text", "files", "paths", "picture"} |->
                    IF i \in some THEN c[i] ELSE None]
MCFiles   == Form({"files"}, [files |-> file])
MCText    == Form({"text", "files", "paths"}, [text |-> text, files |-> names, paths |-> paths])
MCPicture == Form({"picture"}, [picture |-> picture])
MCPathsIn == [x \in {text, names, paths} |-> IF x = paths THEN file ELSE None]
==============================================================================
