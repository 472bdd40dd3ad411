SPECIFICATION Spec
CONSTANTS
    Space = {s1, s2}
    Page = {v1, v2}
    Frame = {f1, f2, f3}
    Value = {zero, one}
    Zero = zero
    Device = device
    NoFrame = none
    NoSpace = kernel
    MaxRef = 2
INVARIANT NoLostFrames
