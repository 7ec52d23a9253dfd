------------------------------- MODULE MCAssets -------------------------------
\* An instance of Assets for TLC.
EXTENDS Assets, TLC

CONSTANTS c1, c2, good, bad

MCCallers == {c1, c2}
MCTwo == {1, 2}
MCContents == {good, bad}
MCGood == {good}
MCImages == {"image"}

\* One file: prepared, uploaded and completed by two requests, deleted, and
\* swept in two cycles one of which may be broken off, in four moments.
MCUploads ==
    [files |-> <<>>, requests |-> {"prepare", "complete", "delete"}, last |-> 0,
     callers |-> 2, batch |-> 1, assets |-> 1, time |-> 3, keys |-> 2,
     uploads |-> 1, cycles |-> 2, breaks |-> 1]

\* Complete files: the contents, the drafts and the projects that show, move
\* and delete them, against a cycle of the sweep.
File(purpose, host) == [purpose |-> purpose, host |-> host]
MCHosted(files) ==
    [files |-> files,
     requests |-> {"draft", "issue", "cover", "host", "project", "delete"},
     last |-> 1, callers |-> 1, batch |-> 2, assets |-> 2, time |-> 2, keys |-> 1,
     uploads |-> 0, cycles |-> 1, breaks |-> 0]

\* An image, and a second one that is prepared or made its duplicate, against
\* what these requests do to both.
MCMore(requests) ==
    [MCHosted(<<File("image", "draft")>>) EXCEPT !.requests = requests \cup {"issue"}]

MCPlans ==
    {MCUploads,
     MCMore({"duplicate", "host", "project"}),
     MCMore({"duplicate", "draft", "delete"}),
     MCMore({"prepare", "host", "project"}),
     MCHosted(<<File("image", "draft"), File("image", "draft")>>),
     MCHosted(<<File("image", "draft"), File("attachment", "draft")>>),
     MCHosted(<<File("image", "draft"), File("cover", "project")>>),
     MCHosted(<<File("cover", "project"), File("cover", "project")>>)}

CallerPerms == Permutations(MCCallers)
===============================================================================
