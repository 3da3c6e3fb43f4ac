---------------------------- MODULE MCDocuments ----------------------------
(* Files for Documents: a section with comments, a block and a blank line,  *)
(* a list behind a null, values and sections that are anchored,             *)
(* repeated and merged.                                                     *)
EXTENDS Documents, TLC

CONSTANTS image, leaf, ports, x, y, One, Two, Note, Mark, Name, Other

Line(p, kind, val) ==
    [path |-> p, kind |-> kind, val |-> val, style |-> "plain", anchor |-> None,
     head |-> None, line |-> None, foot |-> None, blank |-> FALSE, bytes |-> "source"]

Scalar(p) == Line(p, "scalar", One)
Section(p, kind) == Line(p, kind, None)

Commented ==
    [banner |-> Mark, coding |-> "bom", lines |->
        << [Section(<<image>>, "map") EXCEPT !.head = Mark],
           [Scalar(<<image, x>>) EXCEPT !.line = Mark],
           [Scalar(<<image, y>>) EXCEPT !.style = "block", !.blank = TRUE],
           [Scalar(<<leaf>>) EXCEPT !.style = "quoted", !.foot = Mark] >>]

Listed ==
    [banner |-> None, coding |-> "plain", lines |->
        << [Line(<<y>>, "scalar", Null) EXCEPT !.line = Mark],
           Section(<<ports>>, "seq"),
           [Scalar(<<ports, 0>>) EXCEPT !.anchor = Name],
           [Line(<<ports, 1>>, "scalar", Two) EXCEPT !.head = Mark, !.blank = TRUE],
           Line(<<ports, 2>>, "alias", Name) >>]

Aliased ==
    [banner |-> None, coding |-> "plain", lines |->
        << [Scalar(<<leaf>>) EXCEPT !.anchor = Name],
           Line(<<ports>>, "alias", Name) >>]

Merged ==
    [banner |-> None, coding |-> "plain", lines |->
        << [Section(<<image>>, "map") EXCEPT !.anchor = Name],
           Scalar(<<image, x>>),
           Section(<<ports>>, "map"),
           Line(<<ports, Merge>>, "alias", Name),
           Line(<<ports, y>>, "scalar", Two) >>]

Shared ==
    [banner |-> None, coding |-> "plain", lines |->
        << [Section(<<image>>, "map") EXCEPT !.anchor = Name],
           Scalar(<<image, x>>),
           Line(<<ports>>, "alias", Name) >>]

MCTexts == {Commented, Listed, Aliased, Merged, Shared}
MCDefaults == << <<image>>, <<image, x>> >>
MCVals == {One, Two}
MCComments == {Note}
MCAnchors == {Name, Other}
MCNames == {image, leaf, ports, x, y}
=============================================================================
