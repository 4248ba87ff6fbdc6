--------------------------- MODULE MCPatchEngine ---------------------------
(* Instances of PatchEngine for TLC.                                        *)
EXTENDS PatchEngine, TLC

MCWords == {"a", "b"}
\* Two lines with a word twice and no last newline; one line with its newline.
MCContents == {<<"a", NL, "a">>, <<"b", NL>>}
\* A whole line and a part of one; old_string found once, twice or not at all;
\* a new_string that is a pattern and a dollar.
Input(tool, old, new) == [tool |-> tool, old |-> old, new |-> new]
MCJobs ==
    {Input("write", <<>>, text) : text \in MCContents}
        \cup {Input(tool, <<"a">>, <<"b", NL>>) : tool \in {"edit", "edit_all"}}
        \cup {Input("edit", <<"b", NL>>, <<"a">>),
              Input("edit", <<"a">>, <<"$", "&", "$">>)}
MCTyped == {<<"b", NL, "b">>}

Symmetry == Permutations(Edits) \cup Permutations(Rejects)
=============================================================================
