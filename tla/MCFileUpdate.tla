---------------------------- MODULE MCFileUpdate ----------------------------
(* Small instances of FileUpdate for TLC. *)
EXTENDS FileUpdate

Info(name, path, content) ==
  [filename |-> name, type |-> "client1", save_path |-> path,
   remotefile_url |-> "download/" \o name, md5 |-> content]

(* A file in two versions, saved under its url, and one saved elsewhere. *)
TwoFiles == {Info("f", "download/f", <<"a1", "a2">>), Info("f", "download/f", <<"b1", "b2">>),
             Info("g", "/opt/g", <<"g1", "g2">>)}

=============================================================================
