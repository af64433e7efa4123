------------------------------ MODULE MCScreen ------------------------------
(* Start-up options of the model-checking runs of Screen.                  *)
EXTENDS Screen

Spec0(pos, size) ==
    [pos |-> pos, size |-> size, percent |-> FALSE, hidden |-> FALSE, border |-> "line", threshold |-> 0]

Plain ==
    [layout |-> "default", width |-> 30, height |-> 16,
     margin |-> [i \in 1..4 |-> [size |-> 0, percent |-> FALSE]],
     padding |-> [i \in 1..4 |-> [size |-> 0, percent |-> FALSE]],
     border |-> "none", listB |-> "none", inputB |-> "none", headerB |-> "none",
     headerLinesB |-> "unset", footerB |-> "bottom", headerFirst |-> FALSE,
     header0 |-> 0, headerLines |-> 0, footer |-> 0, inputless |-> FALSE, headerVisible |-> TRUE,
     info |-> "default", separator |-> "auto", scrollbar |-> FALSE,
     previewer |-> FALSE, command |-> FALSE,
     previews |-> <<Spec0("right", 5)>>, initial |-> <<Spec0("right", 5)>>, shared |-> TRUE,
     detached |-> Spec0("right", 5),
     binds |-> {}, items |-> -1, fit |-> -1, pad |-> 0]

Layouts == {"default", "reverse", "reverse-list"}


\* Every order of the sections and kind of border; the number of lines varies
Sections ==
    {s \in {[Plain EXCEPT !.layout = l, !.listB = lb, !.inputB = ib, !.headerB = hb,
                          !.headerLinesB = hl, !.headerFirst = hf, !.items = 4,
                          !.footer = IF lb = "none" THEN 1 ELSE 0,
                          !.binds = {"toggle-input", "toggle-header", "change-header", "change-header-lines"}
                                      \cup (IF lb = "none" THEN {} ELSE {"change-footer"})] :
              l \in Layouts, lb \in {"none", "rounded"}, ib \in {"none", "rounded"},
              hb \in {"none", "top", "inline"}, hl \in {"unset", "rounded"}, hf \in BOOLEAN} :
        s.headerB = "inline" => s.listB = "rounded" /\ s.headerLinesB # "rounded"}

Alternative == [Spec0("up", 3) EXCEPT !.border = "rounded"]

\* The alternative is used at once, or when the terminal is narrow
AtOnce == << [Spec0("next", 3) EXCEPT !.threshold = 5], Alternative >>
WhenNarrow == << [Spec0("right", 50) EXCEPT !.percent = TRUE, !.threshold = 12], Alternative >>

Shown(s, p) == [s EXCEPT !.previewer = TRUE, !.command = TRUE, !.previews = p, !.initial = p]

\* Every position of the preview window, beside every order of the sections
Previews ==
    {[Shown(s, <<Spec0(pos, 3)>>) EXCEPT !.headerB = "top", !.headerLinesB = "rounded",
          !.binds = {"toggle-preview", "mouse", "toggle-input"}, !.headerLines = 1] :
        s \in {[Plain EXCEPT !.layout = l, !.listB = lb, !.inputB = lb, !.headerFirst = hf, !.footer = 1] :
                 l \in Layouts, lb \in {"none", "rounded"}, hf \in BOOLEAN},
        pos \in {"up", "down", "left", "right", "next"}}

\* The specification of the preview window changes, and the size of the terminal
Thresholds ==
    {[Shown(s, p) EXCEPT !.border = b, !.listB = b, !.scrollbar = TRUE,
          !.binds = {"toggle-preview", "preview", "change-preview", "change-preview-window", "resize"}] :
        s \in {[Plain EXCEPT !.layout = l] : l \in Layouts}, b \in {"none", "rounded"},
        p \in {<<Spec0("next", 3)>>, AtOnce, WhenNarrow}}

Everything == Sections \cup Previews \cup Thresholds
Sizes == {[width |-> 30, height |-> 16], [width |-> 20, height |-> 12]}
SomeChoices == {<<>>, <<Spec0("up", 2)>>, AtOnce}
=============================================================================
