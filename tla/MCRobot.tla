------------------------------ MODULE MCRobot ------------------------------
(* The three commands of vmsg: a node with one or two discoveries, and the *)
(* two applications on a node that has none.                               *)
EXTENDS Robot

MCConfigs ==
    {Config("node", 1, << >>, {}, 3),
     Config("node", 2, << >>, {}, 1),
     Config("robot", 0, << >>, {"talk", "hush"}, 3),
     Config("robot", 0, << >>, {"ping", "file"}, 2),
     Config("chat", 0, << >>, {"ping", "text", "file"}, 2),
     Config("chat", 0, <<"file">>, {"text", "file"}, 1),
     Config("chat", 0, <<"ping", "ping", "ping">>, {"text"}, 1)}
=============================================================================
