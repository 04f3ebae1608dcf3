---------------------------- MODULE TrainedModels ----------------------------
(***************************************************************************)
(* The networks the training programs define, whose structures and weights *)
(* the server loads: one operator per program, with the options --bn,      *)
(* --gap and --full.  Keras' defaults are filled in: padding "valid",      *)
(* strides 1, and pooling strides equal to the pooling window.             *)
(***************************************************************************)
EXTENDS Naturals, Sequences

\* size: filters of a convolution, units of a dense layer; input: the
\* batch_input_shape of the first layer.
KerasLayer(class) ==
    [class |-> class, fn |-> "none", size |-> 0, window |-> 1, stride |-> 1,
     padding |-> "valid", input |-> <<>>]

Conv2DLayer(filters, window, stride, padding) ==
    [KerasLayer("Conv2D") EXCEPT !.size = filters, !.window = window,
                                 !.stride = stride, !.padding = padding]
ActivationLayer(fn) == [KerasLayer("Activation") EXCEPT !.fn = fn]
PoolingLayer ==
    [KerasLayer("AveragePooling2D") EXCEPT !.window = 2, !.stride = 2]
DenseLayer(units) == [KerasLayer("Dense") EXCEPT !.size = units]

Normalized(bn) == IF bn THEN <<KerasLayer("BatchNormalization")>> ELSE <<>>

Heading(gap) == IF gap THEN <<KerasLayer("GlobalAveragePooling2D")>>
                       ELSE <<KerasLayer("Flatten")>>

FirstLayer(layers, input) == [layers EXCEPT ![1].input = input]

Mnist(fn, bn, gap) ==
    FirstLayer(<<Conv2DLayer(5, 5, 2, "valid")>> \o Normalized(bn)
               \o <<ActivationLayer(fn), Conv2DLayer(50, 5, 2, "valid")>>
               \o Normalized(bn) \o <<ActivationLayer(fn)>> \o Heading(gap)
               \o <<DenseLayer(10)>>,
               <<28, 28, 1>>)

CifarBlock(filters, fn, bn) ==
    <<Conv2DLayer(filters, 3, 1, "same")>> \o Normalized(bn)
    \o <<ActivationLayer(fn), PoolingLayer>>

Cifar10(fn, bn, gap, full) ==
    FirstLayer(CifarBlock(32, fn, bn) \o CifarBlock(64, fn, bn)
               \o CifarBlock(128, fn, bn) \o Heading(gap) \o <<DenseLayer(256)>>
               \o (IF full THEN Normalized(TRUE) \o <<ActivationLayer(fn)>>
                           ELSE <<>>)
               \o <<DenseLayer(10)>>,
               <<32, 32, 3>>)

-----------------------------------------------------------------------------
(* The programs *)

MnistHCNN(bn, gap)       == Mnist("square", bn, gap)
MnistPlainRelu(bn, gap)  == Mnist("relu", bn, gap)
MnistPlainSwish(bn, gap) == Mnist("swish", bn, gap)
MnistPlainMish(bn, gap)  == Mnist("mish", bn, gap)
MnistCKKS(fn, bn, gap)   == Mnist(fn, bn, gap)

Cifar10HCNN(bn, gap, full)       == Cifar10("square", bn, gap, full)
Cifar10PlainRelu(bn, gap, full)  == Cifar10("relu", bn, gap, full)
Cifar10PlainSwish(bn, gap, full) == Cifar10("swish", bn, gap, full)
Cifar10PlainMish(bn, gap, full)  == Cifar10("mish", bn, gap, full)
Cifar10CKKS(fn, bn, gap, full)   == Cifar10(fn, bn, gap, full)

\* ACTIVATION_FUNCTION_MAP of the CKKS programs.
ApproxActivations ==
    {"swish_rg3_deg4", "swish_rg4_deg4", "swish_rg5_deg4", "swish_rg6_deg4",
     "swish_rg7_deg4", "swish_rg8_deg4", "mish_rg4_deg4", "mish_rg5_deg4",
     "mish_rg6_deg4"}
=============================================================================
