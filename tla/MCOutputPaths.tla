--------------------------- MODULE MCOutputPaths ---------------------------
(* OutputPaths with two folders.  The names collide once a suffix is added *)
(* or taken away, or a number is, and one archive has the other's suffix.  *)
EXTENDS OutputPaths

a     == Part("a")
mgz   == Part("mgz")
gz    == Part("gz")
a1    == [word |-> "a", numbers |-> <<1>>]

InFolder(dir, name) == [dir |-> dir, name |-> name]

MCFiles ==
    [path \in {InFolder("d", <<a>>), InFolder("d", <<a, mgz>>),
               InFolder("d", <<a1, mgz>>), InFolder("d", <<a, gz>>),
               InFolder("e", <<a>>), InFolder("e", <<a, mgz>>)} |->
        IF path.dir = "e" THEN "gzip"
        ELSE IF Last(path.name) = gz THEN "gzip"
        ELSE IF Last(path.name) = mgz THEN "mgz"
        ELSE "plain"]

MCEndings == {<<mgz>>, <<gz>>}

====
